---- MODULE Spec2Model ----
(***************************************************************************)
(* dsearch: the in-memory search engine (package search, Engine.New and    *)
(* Engine.Search) over DevDocs indices loaded from the local store by the  *)
(* CLI (loadSearchEngine).                                                 *)
(*                                                                         *)
(* Strings are sequences of ASCII codes, so that Go's byte-wise string     *)
(* comparison and the rune classes used by the fuzzy matcher are computed  *)
(* and not assumed.                                                        *)
(***************************************************************************)
EXTENDS Integers, Sequences, FiniteSets, TLC

\* ------------------------------------------------------------- bounds
MaxQueryLen == 2
MaxLimit == 3
MaxFilterLen == 2

\* ------------------------------------------------------------ strings
\* 'A', '_', 'a', 'b': an upper-case letter, a separator, two lower-case letters
Alphabet == {65, 95, 97, 98}

RECURSIVE SeqsOfLen(_, _)
SeqsOfLen(S, n) ==
    IF n = 0 THEN {<<>>}
    ELSE {Append(s, x) : s \in SeqsOfLen(S, n - 1), x \in S}

SeqsUpTo(S, n) == UNION {SeqsOfLen(S, k) : k \in 0..n}

\* Go's s < t on strings: byte-wise lexicographic order
RECURSIVE StrLess(_, _)
StrLess(s, t) ==
    IF t = <<>> THEN FALSE
    ELSE IF s = <<>> THEN TRUE
    ELSE IF Head(s) # Head(t) THEN Head(s) < Head(t)
    ELSE StrLess(Tail(s), Tail(t))

Max(a, b) == IF a >= b THEN a ELSE b

\* ---------------------------------------------- github.com/sahilm/fuzzy
firstCharMatchBonus == 10
matchFollowingSeparatorBonus == 20
camelCaseMatchBonus == 20
adjacentMatchBonus == 5
unmatchedLeadingCharPenalty == 0 - 5
maxUnmatchedLeadingCharPenalty == 0 - 15

IsUpper(r) == r \in 65..90
IsLower(r) == r \in 97..122
\* separators = "/-_ .\\"
isSeparator(r) == r \in {47, 45, 95, 32, 46, 92}

\* ASCII case folding, as the matcher's equalFold
equalFold(tr, sr) ==
    \/ tr = sr
    \/ LET hi == Max(tr, sr)
           lo == IF tr < sr THEN tr ELSE sr
       IN  hi < 128 /\ lo \in 65..90 /\ hi = lo + 32

adjacentCharBonus(i, lastMatch, currentBonus) ==
    IF lastMatch = i THEN currentBonus * 2 + adjacentMatchBonus ELSE 0

\* The state of the scan of one candidate string before its first rune.
ScanStart ==
    [patternIndex |-> 0, bestScore |-> 0 - 1, matchedIndex |-> 0 - 1,
     currAdjacentMatchBonus |-> 0, MatchedIndexes |-> <<>>, Score |-> 0]

\* One iteration of the scan: the rune at 0-based offset j of str.
ScanStep(runes, str, j, st) ==
    LET candidate == str[j + 1]
        last == IF j = 0 THEN 0 ELSE str[j]
        lastIndex == IF j = 0 THEN 0 ELSE j - 1
        hit == /\ st.patternIndex < Len(runes)
               /\ equalFold(candidate, runes[st.patternIndex + 1])
        bonus == IF st.MatchedIndexes # <<>>
                 THEN adjacentCharBonus(lastIndex,
                          st.MatchedIndexes[Len(st.MatchedIndexes)],
                          st.currAdjacentMatchBonus)
                 ELSE 0
        score == (IF j = 0 THEN firstCharMatchBonus ELSE 0)
                 + (IF IsLower(last) /\ IsUpper(candidate)
                    THEN camelCaseMatchBonus ELSE 0)
                 + (IF j # 0 /\ isSeparator(last)
                    THEN matchFollowingSeparatorBonus ELSE 0)
                 + bonus
        adj1 == IF hit THEN st.currAdjacentMatchBonus + bonus
                ELSE st.currAdjacentMatchBonus
        better == hit /\ score > st.bestScore
        best1 == IF better THEN score ELSE st.bestScore
        mi1 == IF better THEN j ELSE st.matchedIndex
        nextp == IF st.patternIndex < Len(runes) - 1
                 THEN runes[st.patternIndex + 2] ELSE 0
        nextc == IF j + 1 < Len(str) THEN str[j + 2] ELSE 0
        apply == (equalFold(nextp, nextc) \/ nextc = 0) /\ mi1 > 0 - 1
        penalty == mi1 * unmatchedLeadingCharPenalty
        best2 == IF st.MatchedIndexes = <<>>
                 THEN best1 + Max(penalty, maxUnmatchedLeadingCharPenalty)
                 ELSE best1
    IN  IF apply
        THEN [patternIndex |-> st.patternIndex + 1, bestScore |-> 0 - 1,
              matchedIndex |-> mi1, currAdjacentMatchBonus |-> adj1,
              MatchedIndexes |-> Append(st.MatchedIndexes, mi1),
              Score |-> st.Score + best2]
        ELSE [st EXCEPT !.bestScore = best1, !.matchedIndex = mi1,
                        !.currAdjacentMatchBonus = adj1]

RECURSIVE Scan(_, _, _, _)
Scan(runes, str, j, st) ==
    IF j >= Len(str) THEN st
    ELSE Scan(runes, str, j + 1, ScanStep(runes, str, j, st))

\* The match of pattern against one string: whether every pattern rune was
\* matched, and the raw score (a penalty of one per unmatched character).
MatchOne(runes, str) ==
    LET st == Scan(runes, str, 0, ScanStart)
    IN  [matched |-> Len(st.MatchedIndexes) = Len(runes),
         Score |-> st.Score + (Len(st.MatchedIndexes) - Len(str))]

\* Whether Find reports str for pattern: the empty pattern matches nothing
\* (FindFromNoSort returns nil for it before looking at the data).
Matched(pattern, str) == pattern # <<>> /\ MatchOne(pattern, str).matched

\* FindFromNoSort: every string of data the pattern matches, in data order,
\* with its position in data.
RECURSIVE FindFromNoSort(_, _, _)
FindFromNoSort(pattern, data, i) ==
    IF i > Len(data) THEN <<>>
    ELSE LET rest == FindFromNoSort(pattern, data, i + 1)
         IN  IF Matched(pattern, data[i])
             THEN <<[Index |-> i, Score |-> MatchOne(pattern, data[i]).Score]>> \o rest
             ELSE rest

\* Matches.Less
MatchLess(a, b) == a.Score >= b.Score

\* sort.Stable on Matches: insertion sort (blocks of up to 20 elements),
\* each element moved left while Less(it, its left neighbour).
RECURSIVE InsertMatch(_, _)
InsertMatch(sorted, x) ==
    IF sorted = <<>> \/ ~MatchLess(x, sorted[Len(sorted)]) THEN Append(sorted, x)
    ELSE Append(InsertMatch(SubSeq(sorted, 1, Len(sorted) - 1), x),
                sorted[Len(sorted)])

RECURSIVE SortMatches(_, _)
SortMatches(ms, k) ==
    IF k = 0 THEN <<>>
    ELSE InsertMatch(SortMatches(ms, k - 1), ms[k])

\* fuzzy.Find(pattern, data)
Find(pattern, data) ==
    LET ms == FindFromNoSort(pattern, data, 1)
    IN  SortMatches(ms, Len(ms))

\* ------------------------------------------------------- package search
\* Go's zero value of a string: what a map lookup of a missing key yields.
\* Slugs are the positive numbers 1, 2, ...; 0 stands for "".
NoSlug == 0

Range(f) == {f[x] : x \in DOMAIN f}

\* New, lines 24-27: the reverse map is built by ranging over indicesBySlug
\* (in Go's unspecified map order), so an Index registered under several
\* slugs ends with any one of them.
RECURSIVE ReverseMaps(_, _)
ReverseMaps(indicesBySlug, idxs) ==
    IF idxs = {} THEN {<<>>}
    ELSE LET idx == CHOOSE i \in idxs : TRUE
         IN  {rev @@ (idx :> slug) :
                 rev \in ReverseMaps(indicesBySlug, idxs \ {idx}),
                 slug \in {s \in DOMAIN indicesBySlug : indicesBySlug[s] = idx}}

\* New(indices, indicesBySlug, limit): the engines it may return.
New(indices, indicesBySlug, limit) ==
    {[indices |-> indices, indicesBySlug |-> indicesBySlug,
      slugsByIndex |-> rev, limit |-> limit] :
        rev \in ReverseMaps(indicesBySlug, Range(indicesBySlug))}

\* mutant: docSlugs is only checked against the loaded slugs, every Index
\* is searched
LookupSlugsAll(e, docSlugs) ==
    IF \E i \in 1..Len(docSlugs) : docSlugs[i] \in DOMAIN e.indicesBySlug
    THEN e.indices
    ELSE <<>>

\* Search, lines 51-60: the Indices to search.
RECURSIVE LookupSlugs(_, _)
LookupSlugs(e, docSlugs) ==
    IF docSlugs = <<>> THEN <<>>
    ELSE LET rest == LookupSlugs(e, Tail(docSlugs))
         IN  IF Head(docSlugs) \in DOMAIN e.indicesBySlug
             THEN <<e.indicesBySlug[Head(docSlugs)]>> \o rest
             ELSE rest

\* mutant: with no slug of docSlugs loaded, search every Index
IndicesToSearchFallback(e, docSlugs) ==
    IF Len(docSlugs) > 0 /\ LookupSlugs(e, docSlugs) # <<>>
    THEN LookupSlugs(e, docSlugs)
    ELSE e.indices

IndicesToSearch(e, docSlugs) ==
    IF Len(docSlugs) > 0 THEN LookupSlugs(e, docSlugs) ELSE e.indices

\* Search, lines 66-69: <<>> is the empty warning, <<n>> the text
\* "Searching across n docs. Use -d <doc> for faster results."
WarnThreshold == 10

\* mutant: the warning from 10 Indices on
WarningAtThreshold(indicesToSearch, docSlugs) ==
    IF Len(indicesToSearch) >= WarnThreshold /\ Len(docSlugs) = 0
    THEN <<Len(indicesToSearch)>>
    ELSE <<>>

Warning(indicesToSearch, docSlugs) ==
    IF Len(indicesToSearch) > WarnThreshold /\ Len(docSlugs) = 0
    THEN <<Len(indicesToSearch)>>
    ELSE <<>>

\* Search, line 79: the slug of an Index, "" when the reverse map lacks it.
SlugOf(e, idx) ==
    IF idx \in DOMAIN e.slugsByIndex THEN e.slugsByIndex[idx] ELSE NoSlug

\* Search, lines 71-83: every entry of every Index searched, with its slug.
RECURSIVE CollectEntries(_, _, _)
CollectEntries(e, mem, indicesToSearch) ==
    IF indicesToSearch = <<>> THEN <<>>
    ELSE LET idx == Head(indicesToSearch)
             slug == SlugOf(e, idx)
         IN  [i \in 1..Len(mem[idx]) |-> [entry |-> mem[idx][i], slug |-> slug]]
             \o CollectEntries(e, mem, Tail(indicesToSearch))

\* mutant: matches of a score that is not positive are dropped
BuildResultsPositive(query, allEntries) ==
    LET names == [i \in 1..Len(allEntries) |-> allEntries[i].entry.Name]
        matches == SelectSeq(Find(query, names), LAMBDA m : m.Score > 0)
    IN  [k \in 1..Len(matches) |->
            LET ie == allEntries[matches[k].Index]
            IN  [Name |-> ie.entry.Name, Path |-> ie.entry.Path,
                 Type |-> ie.entry.Type, Slug |-> ie.slug,
                 Score |-> matches[k].Score]]

\* Search, lines 89-105: the fuzzy matches as Results. Score holds the raw
\* score: float64(raw) / 100.0 is strictly increasing in raw, so the raw
\* score orders and equates Results exactly as the normalized one does.
BuildResults(query, allEntries) ==
    LET names == [i \in 1..Len(allEntries) |-> allEntries[i].entry.Name]
        matches == Find(query, names)
    IN  [k \in 1..Len(matches) |->
            LET ie == allEntries[matches[k].Index]
            IN  [Name |-> ie.entry.Name, Path |-> ie.entry.Path,
                 Type |-> ie.entry.Type, Slug |-> ie.slug,
                 Score |-> matches[k].Score]]

\* mutant: no tie-break by name
ResultLessByScore(a, b) == a.Score > b.Score

\* Search, lines 108-113: the less function given to sort.Slice.
ResultLess(a, b) ==
    IF a.Score # b.Score THEN a.Score > b.Score
    ELSE StrLess(a.Name, b.Name)

\* sort.Slice: insertion sort for up to 12 elements.
RECURSIVE InsertResult(_, _)
InsertResult(sorted, x) ==
    IF sorted = <<>> \/ ~ResultLess(x, sorted[Len(sorted)]) THEN Append(sorted, x)
    ELSE Append(InsertResult(SubSeq(sorted, 1, Len(sorted) - 1), x),
                sorted[Len(sorted)])

RECURSIVE SortPrefix(_, _)
SortPrefix(rs, k) ==
    IF k = 0 THEN <<>>
    ELSE InsertResult(SortPrefix(rs, k - 1), rs[k])

SortResults(rs) == SortPrefix(rs, Len(rs))

\* What a call of Search ends with.
ErrNoMatchingDocs == "no matching docs found"
ErrNoResults == "no results found for %q"
Failed(msg) == [status |-> "error", results |-> <<>>, warning |-> <<>>, err |-> msg]
Returned(rs, w) == [status |-> "ok", results |-> rs, warning |-> w, err |-> ""]
\* a run-time panic: slice bounds out of range
Panicked == [status |-> "panic", results |-> <<>>, warning |-> <<>>, err |-> ""]

\* mutant: one result too many is kept
LimitResultsOneMore(rs, limit, w) ==
    IF Len(rs) > limit
    THEN IF limit < 0 THEN Panicked ELSE Returned(SubSeq(rs, 1, limit + 1), w)
    ELSE Returned(rs, w)

\* Search, lines 115-120: results[:e.limit] when there are more than limit.
LimitResults(rs, limit, w) ==
    IF Len(rs) > limit
    THEN IF limit < 0 THEN Panicked ELSE Returned(SubSeq(rs, 1, limit), w)
    ELSE Returned(rs, w)

\* Engine.Search(query, docSlugs) on engine e, mem holding each Index.
Search(e, mem, query, docSlugs) ==
    LET indicesToSearch == IndicesToSearch(e, docSlugs)
        allEntries == CollectEntries(e, mem, indicesToSearch)
    IN  IF Len(indicesToSearch) = 0 THEN Failed(ErrNoMatchingDocs)
        ELSE IF Len(allEntries) = 0 THEN Failed(ErrNoResults)
        ELSE LimitResults(SortResults(BuildResults(query, allEntries)),
                          e.limit, Warning(indicesToSearch, docSlugs))

\* ----------------------------------------------------------- the state
VARIABLES
    store,    \* the data directory: installed slug -> the entries of its index.json
    loaded,   \* "none", "ok" or "error": whether the engine was built
    engine,   \* the Engine
    heap,     \* each *devdocs.Index the loader allocated -> its Entries
    origin,   \* history: each *devdocs.Index -> the slug LoadIndex read it for
    calls,    \* each caller of Search -> its call
    frames,   \* each caller inside Search -> the local variables of its call
    render,   \* the call of Renderer.Render: its input, what it did, its return
    tui,      \* the interactive UI: its Model, its commands and messages in flight
    crawl,    \* the call of Crawler.ScrapePages: its goroutines, semaphore and mutex
    disk,     \* the files below the data directory of the Store, and its calls
    home,     \* the directories MigrateDataDir works on, and its runs
    cli,      \* the command the program was started with: its flags, its return
    build     \* the docset a Builder updates: its searchIndex, the call

\* The state of the CLI's search ...
searchVars == <<store, loaded, engine, heap, origin, calls, frames>>
\* ... and of the other components, which a search leaves alone.
nonSearchVars == <<render, tui, crawl, disk, home, cli, build>>
\* What a call of Render leaves alone, and what the other components do.
nonRenderVars == <<searchVars, tui, crawl, disk, home, cli, build>>
nonTuiVars == <<searchVars, render, crawl, disk, home, cli, build>>
nonCrawlVars == <<searchVars, render, tui, disk, home, cli, build>>
nonDiskVars == <<searchVars, render, tui, crawl, home, cli, build>>
nonHomeVars == <<searchVars, render, tui, crawl, disk, cli, build>>
nonCliVars == <<searchVars, render, tui, crawl, disk, home, build>>
nonBuildVars == <<searchVars, render, tui, crawl, disk, home, cli>>

vars == <<searchVars, nonSearchVars>>

\* No call of Render was made.
NoRender == [pc |-> "idle"]
\* The interactive UI was not started.
NoTui == [pc |-> "off"]
\* No crawl was started.
NoCrawl == [pc |-> "idle"]
\* No Store was opened.
NoDisk == [pc |-> "closed"]
\* No migration was run.
NoHome == [pc |-> "idle"]
\* No command was started.
NoCli == [pc |-> "none"]
\* No Builder was made.
NoBuild == [pc |-> "idle"]

Callers == {1, 2}

Entry(name, path, type) == [Name |-> name, Path |-> path, Type |-> type]

\* The index.json of each doc that can be installed: doc 1 holds "ab" and
\* "a_b", doc 2 holds "bA", "Ab" and another "ab", every other doc is an
\* empty document.
Catalog(slug) ==
    IF slug = 1
    THEN <<Entry(<<97, 98>>, "hooks/ab", "Hook"),
           Entry(<<97, 95, 98>>, "hooks/a_b", "Hook")>>
    ELSE IF slug = 2
    THEN <<Entry(<<98, 65>>, "models/bA", "Model"),
           Entry(<<65, 98>>, "models/Ab", "Model"),
           Entry(<<97, 98>>, "guide/ab", "Guide")>>
    ELSE <<>>

Queries == SeqsUpTo(Alphabet, MaxQueryLen)

\* A slug no doc is installed under.
UnknownSlug == WarnThreshold + 2
Filters == SeqsUpTo({1, 2, UnknownSlug}, MaxFilterLen)

\* Values of --doc: none, one doc, an empty doc, two docs, a doc named
\* twice, a doc that is not installed alone and with an installed one.
LoadFlags ==
    {<<>>, <<1>>, <<2>>, <<3>>, <<2, 1>>, <<1, 1>>,
     <<UnknownSlug>>, <<UnknownSlug, 2>>}

\* Values of --limit
Limits == (0 - 1)..MaxLimit

NoEngine == [indices |-> <<>>, indicesBySlug |-> <<>>, slugsByIndex |-> <<>>, limit |-> 0]
NoFrame == [indicesToSearch |-> <<>>, warning |-> <<>>, allEntries |-> <<>>, results |-> <<>>]
Idle == [pc |-> "idle", query |-> <<>>, docSlugs |-> <<>>, out |-> Returned(<<>>, <<>>)]

\* How many docs are installed: none, a few, and as many as the warning
\* threshold or one more.
DocCounts == {0, 1, 2, 3, WarnThreshold, WarnThreshold + 1}

\* The docs installed are 1..n.
Stores == {[slug \in 1..n |-> Catalog(slug)] : n \in DocCounts}

Init ==
    /\ store \in Stores
    /\ loaded = "none"
    /\ engine = NoEngine
    /\ heap = <<>>
    /\ origin = <<>>
    /\ calls = [c \in Callers |-> Idle]
    /\ frames = [c \in Callers |-> NoFrame]
    /\ render = NoRender
    /\ tui = NoTui
    /\ crawl = NoCrawl
    /\ disk = NoDisk
    /\ home = NoHome
    /\ cli = NoCli
    /\ build = NoBuild

\* Store.ListInstalled: the directories of docs/, in directory order.
ListInstalled == [i \in 1..Cardinality(DOMAIN store) |-> i]

RECURSIVE FilterInstalled(_)
FilterInstalled(docs) ==
    IF docs = <<>> THEN <<>>
    ELSE IF Head(docs) \in DOMAIN store
         THEN <<Head(docs)>> \o FilterInstalled(Tail(docs))
         ELSE FilterInstalled(Tail(docs))

\* loadSearchEngine: the slugs to load, given the --doc flag.
SlugsToLoad(docs) ==
    IF Len(docs) > 0 /\ Len(FilterInstalled(docs)) > 0
    THEN FilterInstalled(docs)
    ELSE ListInstalled

\* A position of slugsToLoad is the Index allocated by its LoadIndex.
LastLoad(slugsToLoad, slug) ==
    CHOOSE i \in 1..Len(slugsToLoad) :
        /\ slugsToLoad[i] = slug
        /\ \A j \in (i + 1)..Len(slugsToLoad) : slugsToLoad[j] # slug

\* loadSearchEngine with --doc docs and --limit limit.
LoadSearchEngine(docs, limit) ==
    /\ loaded = "none"
    /\ IF DOMAIN store = {}
       THEN /\ loaded' = "error"
            /\ UNCHANGED <<engine, heap, origin>>
       ELSE LET slugsToLoad == SlugsToLoad(docs)
                allIndices == [i \in 1..Len(slugsToLoad) |-> i]
                indicesBySlug == [slug \in Range(slugsToLoad) |->
                                    LastLoad(slugsToLoad, slug)]
            IN  /\ loaded' = "ok"
                /\ heap' = [i \in 1..Len(slugsToLoad) |-> store[slugsToLoad[i]]]
                /\ origin' = slugsToLoad
                /\ engine' \in New(allIndices, indicesBySlug, limit)
    /\ UNCHANGED <<store, calls, frames>>
    /\ UNCHANGED nonSearchVars

\* One whole call of Engine.Search by caller c, with any query and any
\* docSlugs.
SearchCall(c) ==
    /\ loaded = "ok"
    /\ calls[c].pc = "idle"
    /\ \E query \in Queries, docSlugs \in Filters :
          calls' = [calls EXCEPT ![c] =
                       [pc |-> "done", query |-> query, docSlugs |-> docSlugs,
                        out |-> Search(engine, heap, query, docSlugs)]]
    /\ UNCHANGED <<store, loaded, engine, heap, origin, frames>>
    /\ UNCHANGED nonSearchVars

Next ==
    \/ \E docs \in LoadFlags, limit \in Limits : LoadSearchEngine(docs, limit)
    \/ SearchCall(1)

Spec == Init /\ [][Next]_vars

\* -------------------------------------------- Search, statement by statement
\* Callers running Search at the same time on the one engine: each step is
\* a block of Search, reading the engine and the Indices and writing only
\* the locals of its call.
ConcQueries == {<<97>>, <<98, 97>>}
ConcFilters == {<<>>, <<1>>, <<UnknownSlug>>}

\* Caller c calls Search(query, docSlugs).
Begin(c) ==
    /\ loaded = "ok"
    /\ calls[c].pc = "idle"
    /\ \E query \in ConcQueries, docSlugs \in ConcFilters :
          calls' = [calls EXCEPT ![c] =
                       [Idle EXCEPT !.pc = "filter", !.query = query,
                                    !.docSlugs = docSlugs]]
    /\ UNCHANGED <<store, loaded, engine, heap, origin, frames>>
    /\ UNCHANGED nonSearchVars

Finish(c, out) ==
    /\ calls' = [calls EXCEPT ![c].pc = "done", ![c].out = out]
    /\ frames' = [frames EXCEPT ![c] = NoFrame]

\* Lines 51-69: the Indices to search, and the warning.
FilterStep(c) ==
    /\ calls[c].pc = "filter"
    /\ LET its == IndicesToSearch(engine, calls[c].docSlugs)
       IN  IF Len(its) = 0
           THEN Finish(c, Failed(ErrNoMatchingDocs))
           ELSE /\ frames' = [frames EXCEPT ![c].indicesToSearch = its,
                                ![c].warning = Warning(its, calls[c].docSlugs)]
                /\ calls' = [calls EXCEPT ![c].pc = "collect"]
    /\ UNCHANGED <<store, loaded, engine, heap, origin>>
    /\ UNCHANGED nonSearchVars

\* Lines 71-87: the entries of the Indices to search.
CollectStep(c) ==
    /\ calls[c].pc = "collect"
    /\ LET all == CollectEntries(engine, heap, frames[c].indicesToSearch)
       IN  IF Len(all) = 0
           THEN Finish(c, Failed(ErrNoResults))
           ELSE /\ frames' = [frames EXCEPT ![c].allEntries = all]
                /\ calls' = [calls EXCEPT ![c].pc = "match"]
    /\ UNCHANGED <<store, loaded, engine, heap, origin>>
    /\ UNCHANGED nonSearchVars

\* Lines 89-105: the fuzzy matches.
MatchStep(c) ==
    /\ calls[c].pc = "match"
    /\ frames' = [frames EXCEPT ![c].results =
                     BuildResults(calls[c].query, frames[c].allEntries),
                     ![c].allEntries = <<>>]
    /\ calls' = [calls EXCEPT ![c].pc = "sort"]
    /\ UNCHANGED <<store, loaded, engine, heap, origin>>
    /\ UNCHANGED nonSearchVars

\* mutant: the entries of the first Index are put in order of name, in place
SortStepInPlace(c) ==
    /\ calls[c].pc = "sort"
    /\ frames' = [frames EXCEPT ![c].results = SortResults(frames[c].results)]
    /\ calls' = [calls EXCEPT ![c].pc = "limit"]
    /\ heap' = [heap EXCEPT ![1] =
                   IF Len(@) >= 2 /\ StrLess(@[2].Name, @[1].Name)
                   THEN <<@[2], @[1]>> \o SubSeq(@, 3, Len(@))
                   ELSE @]
    /\ UNCHANGED <<store, loaded, engine, origin>>
    /\ UNCHANGED nonSearchVars

\* Every arrangement of rs that the less function accepts as sorted.
SortedOrders(rs) ==
    {[i \in 1..Len(rs) |-> rs[p[i]]] : p \in
        {q \in Permutations(1..Len(rs)) :
            \A i, j \in 1..Len(rs) : i < j => ~ResultLess(rs[q[j]], rs[q[i]])}}

\* mutant: a sort that leaves the order of results the less function does
\* not tell apart to chance
SortStepAnyOrder(c) ==
    /\ calls[c].pc = "sort"
    /\ \E sorted \in SortedOrders(frames[c].results) :
          frames' = [frames EXCEPT ![c].results = sorted]
    /\ calls' = [calls EXCEPT ![c].pc = "limit"]
    /\ UNCHANGED <<store, loaded, engine, heap, origin>>
    /\ UNCHANGED nonSearchVars

\* Lines 107-113: sort.Slice on the results of the call.
SortStep(c) ==
    /\ calls[c].pc = "sort"
    /\ frames' = [frames EXCEPT ![c].results = SortResults(frames[c].results)]
    /\ calls' = [calls EXCEPT ![c].pc = "limit"]
    /\ UNCHANGED <<store, loaded, engine, heap, origin>>
    /\ UNCHANGED nonSearchVars

\* Lines 115-120: the truncation and the return.
LimitStep(c) ==
    /\ calls[c].pc = "limit"
    /\ Finish(c, LimitResults(frames[c].results, engine.limit, frames[c].warning))
    /\ UNCHANGED <<store, loaded, engine, heap, origin>>
    /\ UNCHANGED nonSearchVars

NextConc ==
    \/ \E docs \in LoadFlags, limit \in Limits : LoadSearchEngine(docs, limit)
    \/ \E c \in Callers :
          \/ Begin(c)
          \/ FilterStep(c)
          \/ CollectStep(c)
          \/ MatchStep(c)
          \/ SortStep(c)
          \/ LimitStep(c)

SpecConc == Init /\ [][NextConc]_vars

\* ---------------------------------------------------------- package render
\* An HTML document is a sequence of elements, each a <p>, <pre>, <script>
\* or <style> element holding text and wrapped in depth nested <div>s.
MaxNodes == 2
MaxBlankRun == 5

LF == 10
SP == 32
Backtick == 96

\* unicode.IsSpace, on ASCII
IsSpace(c) == c \in {9, 10, 11, 12, 13, 32}

RECURSIVE TrimLeft(_)
TrimLeft(s) ==
    IF s # <<>> /\ IsSpace(Head(s)) THEN TrimLeft(Tail(s)) ELSE s

RECURSIVE TrimRight(_)
TrimRight(s) ==
    IF s # <<>> /\ IsSpace(s[Len(s)])
    THEN TrimRight(SubSeq(s, 1, Len(s) - 1)) ELSE s

\* strings.TrimSpace
TrimSpace(s) == TrimRight(TrimLeft(s))

HasPrefix(s, prefix) ==
    Len(s) >= Len(prefix) /\ SubSeq(s, 1, Len(prefix)) = prefix

\* strings.ReplaceAll for a non-empty old: one pass from the left over the
\* occurrences of old that do not overlap.
RECURSIVE ReplaceAll(_, _, _)
ReplaceAll(s, old, new) ==
    IF Len(s) < Len(old) THEN s
    ELSE IF HasPrefix(s, old)
         THEN new \o ReplaceAll(SubSeq(s, Len(old) + 1, Len(s)), old, new)
         ELSE <<Head(s)>> \o ReplaceAll(Tail(s), old, new)

Repeat(c, n) == [i \in 1..n |-> c]

RECURSIVE Concat(_)
Concat(ss) == IF ss = <<>> THEN <<>> ELSE Head(ss) \o Concat(Tail(ss))

\* The element <div>*depth <tag>text</tag> </div>*depth
Node(depth, tag, text) == [depth |-> depth, tag |-> tag, text |-> text]

\* golang.org/x/net/html: Parse gives up with an error on a document whose
\* stack of open elements grows beyond 512.
maxOpenStackSize == 512

\* The text of a paragraph: "x", " x ", "x\nx" and nothing.
ParaTexts == {<<120>>, <<SP, 120, SP>>, <<120, LF, 120>>, <<>>}
\* The text of a <pre>: "x", k newlines, "x".
PreTexts == {<<120>> \o Repeat(LF, k) \o <<120>> : k \in 0..MaxBlankRun}
\* The body of a script or a style sheet: letters that occur nowhere else
\* in a document.
BodyTexts == {<<115>>, <<115, LF, 115>>}

\* Not nested, nested once, and nested deeper than the parser accepts.
Depths == {0, 1, maxOpenStackSize}

Nodes ==
    {Node(0, "p", t) : t \in ParaTexts}
    \cup {Node(d, "p", <<120>>) : d \in Depths}
    \cup {Node(0, "pre", t) : t \in PreTexts}
    \cup {Node(d, tag, t) : d \in {0, 1}, tag \in {"script", "style"}, t \in BodyTexts}

Documents == SeqsUpTo(Nodes, MaxNodes)

\* html.Parse on a document in memory: the parser mends malformed markup
\* and fails only on the depth of the open elements (<html>, <body>, the
\* <div>s and the element itself).
ParseFails(doc) ==
    \E i \in 1..Len(doc) : 2 + doc[i].depth + 1 > maxOpenStackSize

\* Every sequence obtained from doc by dropping some of its elements.
RECURSIVE SubSequences(_)
SubSequences(doc) ==
    IF doc = <<>> THEN {<<>>}
    ELSE LET rest == SubSequences(Tail(doc))
         IN  rest \cup {<<Head(doc)>> \o r : r \in rest}

\* readability.FromReader: Article.Content is a <div> holding what the
\* heuristic took for the article, some of the elements of the document
\* and never a script or a style sheet. It fails on a document html.Parse
\* fails on, and may report an error for any other document.
Articles(doc) ==
    {[i \in 1..Len(kept) |-> [kept[i] EXCEPT !.depth = @ + 1]] :
        kept \in SubSequences(SelectSeq(doc,
                     LAMBDA n : n.tag \notin {"script", "style"}))}

\* extractMainContent: what it may return for htmlContent.
extractMainContent(htmlContent) ==
    {[ok |-> FALSE, content |-> <<>>]}
    \cup (IF ParseFails(htmlContent) THEN {}
          ELSE {[ok |-> TRUE, content |-> a] : a \in Articles(htmlContent)})

\* mutant: when the extraction fails, nothing is left to convert
CleanContentOrNothing(ex, htmlContent) ==
    IF ex.ok THEN ex.content ELSE <<>>

\* renderText 50-55, renderMarkdown 71-76: the extracted content, or the
\* original content when the extraction failed.
CleanContent(ex, htmlContent) ==
    IF ex.ok THEN ex.content ELSE htmlContent

\* Every run of white space as one space.
RECURSIVE Squeeze(_)
Squeeze(s) ==
    IF s = <<>> THEN <<>>
    ELSE IF IsSpace(Head(s)) THEN <<SP>> \o Squeeze(TrimLeft(s))
    ELSE <<Head(s)>> \o Squeeze(Tail(s))

Fence == <<Backtick, Backtick, Backtick>>

\* mutant: the body of a script or a style sheet is converted as a paragraph
MarkdownBlockWithBodies(n) ==
    IF n.tag = "pre" THEN Fence \o <<LF>> \o n.text \o <<LF>> \o Fence
    ELSE TrimSpace(Squeeze(n.text))

\* html-to-markdown: the markdown of one element. Scripts and style sheets
\* are removed, a paragraph is its text with the white space collapsed, a
\* <pre> is a fenced code block holding its text as it is.
MarkdownBlock(n) ==
    IF n.tag \in {"script", "style"} THEN <<>>
    ELSE IF n.tag = "pre" THEN Fence \o <<LF>> \o n.text \o <<LF>> \o Fence
    ELSE TrimSpace(Squeeze(n.text))

\* The blocks that are not empty, a blank line between them.
RECURSIVE JoinBlocks(_)
JoinBlocks(blocks) ==
    IF blocks = <<>> THEN <<>>
    ELSE IF Head(blocks) = <<>> THEN JoinBlocks(Tail(blocks))
    ELSE LET rest == JoinBlocks(Tail(blocks))
         IN  IF rest = <<>> THEN Head(blocks)
             ELSE Head(blocks) \o <<LF, LF>> \o rest

\* htmltomarkdown.ConvertString
ConvertString(doc) ==
    IF ParseFails(doc) THEN [err |-> TRUE, md |-> <<>>]
    ELSE [err |-> FALSE,
          md |-> JoinBlocks([i \in 1..Len(doc) |-> MarkdownBlock(doc[i])])]

\* What a call of Render ends with.
ErrConvert == "converting to markdown: %w"
ErrParse == "parsing HTML: %w"
RenderOutcome(out, err) == [out |-> out, err |-> err]

\* renderMarkdown, lines 78-89, on the content to convert.
renderMarkdown(cleanContent) ==
    LET conv == ConvertString(cleanContent)
    IN  IF conv.err THEN RenderOutcome(<<>>, ErrConvert)
        ELSE RenderOutcome(ReplaceAll(TrimSpace(conv.md), <<LF, LF, LF>>, <<LF, LF>>), "")

\* extractText on a text node
TextOf(data) ==
    IF TrimSpace(data) = <<>> THEN <<>> ELSE TrimSpace(data) \o <<SP>>

LBracket == 91
RBracket == 93

\* The element <a>text</a>, with an href attribute or without one.
Link(depth, text, href) ==
    [depth |-> depth, tag |-> "a", text |-> text, href |-> href]

\* extractText on an <a>, lines 128-135 and 144-146: "[" for an href
\* attribute, the children, "]".
LinkText(n) ==
    (IF n.href THEN <<LBracket>> ELSE <<>>) \o TextOf(n.text) \o <<RBracket>>

\* extractText on one element of the parsed document: a newline for each
\* <div> and for a <p>, fences around a <pre>, brackets around a link, and
\* the text of every text node, that of a script or a style sheet included.
extractText(n) ==
    Repeat(LF, n.depth)
    \o (IF n.tag = "p" THEN <<LF>> \o TextOf(n.text)
        ELSE IF n.tag = "pre"
        THEN <<LF>> \o Fence \o <<LF>> \o TextOf(n.text) \o <<LF>> \o Fence \o <<LF>>
        ELSE IF n.tag = "a" THEN LinkText(n)
        ELSE TextOf(n.text))

\* renderText, lines 57-65, on the content to convert.
renderText(cleanContent) ==
    IF ParseFails(cleanContent) THEN RenderOutcome(<<>>, ErrParse)
    ELSE RenderOutcome(
             Concat([i \in 1..Len(cleanContent) |-> extractText(cleanContent[i])]), "")

FormatText == "text"
FormatMD == "md"
\* --format takes any string
Formats == {FormatText, FormatMD, "html"}

\* Renderer.Render(htmlContent) of a Renderer made with New(format).
Render(format, htmlContent) ==
    /\ render.pc = "idle"
    /\ \E ex \in extractMainContent(htmlContent) :
          LET cleanContent == CleanContent(ex, htmlContent)
              ret == IF format = FormatMD THEN renderMarkdown(cleanContent)
                     ELSE renderText(cleanContent)
          IN  render' = [pc |-> "done", format |-> format,
                         htmlContent |-> htmlContent, extracted |-> ex.ok,
                         cleanContent |-> cleanContent,
                         out |-> ret.out, err |-> ret.err]
    /\ UNCHANGED nonRenderVars

\* No doc installed, no engine built, no call of Search.
NoSearch ==
    /\ store = <<>>
    /\ loaded = "none"
    /\ engine = NoEngine
    /\ heap = <<>>
    /\ origin = <<>>
    /\ calls = [c \in Callers |-> Idle]
    /\ frames = [c \in Callers |-> NoFrame]

InitRender ==
    /\ NoSearch
    /\ render = NoRender
    /\ tui = NoTui
    /\ crawl = NoCrawl
    /\ disk = NoDisk
    /\ home = NoHome
    /\ cli = NoCli
    /\ build = NoBuild

NextRender == \E format \in Formats, htmlContent \in Documents : Render(format, htmlContent)

SpecRender == InitRender /\ [][NextRender]_vars

\* Documents of links: <a> elements with and without href, with text "x"
\* or empty, alone or in a <div>, and the paragraph "x".
LinkNodes ==
    {Link(d, t, h) : d \in {0, 1}, t \in {<<120>>, <<>>}, h \in BOOLEAN}
    \cup {Node(0, "p", <<120>>)}

LinkDocuments == SeqsUpTo(LinkNodes, MaxNodes)

\* Render in Text mode on the documents of links.
NextLinks == \E htmlContent \in LinkDocuments : Render(FormatText, htmlContent)

SpecLinks == InitRender /\ [][NextLinks]_vars

\* ------------------------------------------------ package tui (and docset)
\* The interactive UI over the docset engine: Model.Update handles the keys
\* and the messages of the search commands it started, Model.View shows
\* the Model.
MaxInputLen == 3
\* The search commands running or answered and not yet handled.
MaxInFlight == 2

\* SQLite's LIKE on ASCII: letters match whatever their case, '_' in the
\* pattern matches any one character.
Lower(c) == IF c \in 65..90 THEN c + 32 ELSE c
LikeChar(p, c) == p = 95 \/ Lower(p) = Lower(c)

\* name LIKE '%' || pattern || '%'
Like(pattern, name) ==
    \E i \in 0..(Len(name) - Len(pattern)) :
        \A k \in 1..Len(pattern) : LikeChar(pattern[k], name[i + k])

\* ORDER BY name: the rows in byte order of name.
RECURSIVE InsertByName(_, _)
InsertByName(sorted, x) ==
    IF sorted = <<>> \/ ~StrLess(x.Name, sorted[Len(sorted)].Name)
    THEN Append(sorted, x)
    ELSE Append(InsertByName(SubSeq(sorted, 1, Len(sorted) - 1), x),
                sorted[Len(sorted)])

RECURSIVE OrderByName(_)
OrderByName(rows) ==
    IF rows = <<>> THEN <<>>
    ELSE InsertByName(OrderByName(SubSeq(rows, 1, Len(rows) - 1)), rows[Len(rows)])

\* Docset.Search on a docset of the standard schema, with no entry type:
\* SELECT ... WHERE name LIKE ? ORDER BY name LIMIT ?
SqlLimit(rows, limit) ==
    IF limit >= 0 /\ Len(rows) > limit THEN SubSeq(rows, 1, limit) ELSE rows

searchStandard(ds, pattern, limit) ==
    SqlLimit(OrderByName(SelectSeq(ds.searchIndex,
                                   LAMBDA en : Like(pattern, en.Name))),
             limit)

\* Engine.Search of the docset engine, lines 55-62: the entries of every
\* docset searched, each with the name of its docset.
WithSlug(entries, slug) ==
    [i \in 1..Len(entries) |-> [entry |-> entries[i], slug |-> slug]]

RECURSIVE DocsetEntries(_, _, _)
DocsetEntries(docsetsToSearch, query, limit) ==
    IF docsetsToSearch = <<>> THEN <<>>
    ELSE WithSlug(searchStandard(Head(docsetsToSearch), query, limit),
                  Head(docsetsToSearch).Name)
         \o DocsetEntries(Tail(docsetsToSearch), query, limit)

ErrNoMatchingDocsets == "no matching docsets found"

\* Engine.Search, lines 68-100: the results of the entries found.
RankEntries(e, query, allEntries) ==
    IF Len(allEntries) = 0 THEN Failed(ErrNoResults)
    ELSE LimitResults(SortResults(BuildResults(query, allEntries)),
                      e.limit, <<>>)

\* Engine.Search(query, nil) of the docset engine e.
SearchDocsets(e, query) ==
    IF Len(e.docsets) = 0 THEN Failed(ErrNoMatchingDocsets)
    ELSE RankEntries(e, query, DocsetEntries(e.docsets, query, e.limit))

\* The engines the UI is started with: no docset, or the two docsets of
\* the catalog, and the default limit.
Docset(slug) == [Name |-> slug, searchIndex |-> Catalog(slug)]
DefaultLimit == 10
TuiEngines ==
    {[docsets |-> <<>>, limit |-> DefaultLimit],
     [docsets |-> <<Docset(1), Docset(2)>>, limit |-> DefaultLimit]}

\* The keys typed: 'a' and 'b'.
TuiKeys == {97, 98}

\* NewModel(engine)
NewModel(e) ==
    [pc |-> "on", engine |-> e, input |-> <<>>, items |-> <<>>,
     loading |-> FALSE, lastSearch |-> <<>>, searchedOnce |-> FALSE,
     err |-> "",
     cmds |-> {},          \* the queries of the search commands running
     msgs |-> {},          \* the messages sent and not yet handled
     handled |-> "none"]   \* history: the last search message Update handled

\* Update(tea.KeyMsg{Type: KeyRunes}), lines 123-150 and 208-241: the input
\* takes the rune, and a search is started for an input of 2 characters or
\* more that is not the last one searched.
UpdateKeyRunes(r) ==
    /\ tui.pc = "on"
    /\ Len(tui.input) < MaxInputLen
    /\ Cardinality(tui.cmds) + Cardinality(tui.msgs) < MaxInFlight
    /\ LET inputText == Append(tui.input, r)
       IN  tui' = IF Len(inputText) >= 2 /\ inputText # tui.lastSearch
                  THEN [tui EXCEPT !.input = inputText, !.loading = TRUE,
                                   !.cmds = @ \cup {inputText}]
                  ELSE [tui EXCEPT !.input = inputText]
    /\ UNCHANGED nonTuiVars

\* Update(tea.KeyMsg{Type: KeyBackspace}): the input loses its last
\* character; no search is started, the key not being KeyRunes.
UpdateKeyBackspace ==
    /\ tui.pc = "on"
    /\ tui.input # <<>>
    /\ tui' = [tui EXCEPT !.input = SubSeq(@, 1, Len(@) - 1)]
    /\ UNCHANGED nonTuiVars

\* Update(tea.KeyMsg{Type: KeyCtrlC})
UpdateKeyCtrlC ==
    /\ tui.pc = "on"
    /\ tui' = [tui EXCEPT !.pc = "quit"]
    /\ UNCHANGED nonTuiVars

\* performSearchCmd: the command of query runs Search and sends the error,
\* or a searchFinishedMsg.
SearchMsg(ret, query) ==
    IF ret.status = "error"
    THEN [type |-> "error", err |-> ret.err]
    ELSE [type |-> "searchFinishedMsg", results |-> ret.results, query |-> query]

PerformSearch(query) ==
    /\ tui.pc = "on"
    /\ query \in tui.cmds
    /\ tui' = [tui EXCEPT
                  !.cmds = @ \ {query},
                  !.msgs = @ \cup {SearchMsg(SearchDocsets(tui.engine, query), query)}]
    /\ UNCHANGED nonTuiVars

\* Update(error), lines 203-206
UpdateError(msg) ==
    /\ tui.pc = "on"
    /\ msg \in tui.msgs
    /\ msg.type = "error"
    /\ tui' = [tui EXCEPT !.msgs = @ \ {msg}, !.err = msg.err,
                          !.loading = FALSE, !.handled = "error"]
    /\ UNCHANGED nonTuiVars

\* Update(searchFinishedMsg), lines 180-201
UpdateSearchFinished(msg) ==
    /\ tui.pc = "on"
    /\ msg \in tui.msgs
    /\ msg.type = "searchFinishedMsg"
    /\ tui' = [tui EXCEPT !.msgs = @ \ {msg}, !.loading = FALSE,
                          !.lastSearch = msg.query, !.searchedOnce = TRUE,
                          !.items = msg.results, !.handled = "finished"]
    /\ UNCHANGED nonTuiVars

\* View, lines 236-277: the error alone when there is one, else the status
\* line and the list.
View ==
    IF tui.err # ""
    THEN [error |-> tui.err, status |-> "", list |-> <<>>]
    ELSE [error |-> "",
          status |-> IF tui.loading THEN "Searching..."
                     ELSE IF tui.searchedOnce /\ Len(tui.items) = 0
                     THEN "No results found" ELSE "",
          list |-> tui.items]

InitTui ==
    /\ NoSearch
    /\ render = NoRender
    /\ crawl = NoCrawl
    /\ disk = NoDisk
    /\ home = NoHome
    /\ tui \in {NewModel(e) : e \in TuiEngines}
    /\ cli = NoCli
    /\ build = NoBuild

NextTui ==
    \/ \E r \in TuiKeys : UpdateKeyRunes(r)
    \/ UpdateKeyBackspace
    \/ UpdateKeyCtrlC
    \/ \E query \in SeqsUpTo(TuiKeys, MaxInputLen) : PerformSearch(query)
    \/ \E msg \in tui.msgs : UpdateError(msg)
    \/ \E msg \in tui.msgs : UpdateSearchFinished(msg)

SpecTui == InitTui /\ [][NextTui]_vars

\* --------------------------------------------------------- package crawler
\* Crawler.ScrapePages(urls): one goroutine for each URL, a channel of
\* capacity 2 as semaphore, a mutex around the append to pages.
MaxURLs == 3

semaphoreCap == 2

\* ScrapePages called with n URLs: nothing spawned yet.
ScrapeStart(n) ==
    [pc |-> "loop", urls |-> n, next |-> 1,
     g |-> [u \in 1..n |-> "none"],   \* where the goroutine of each URL is
     semaphore |-> 0,                 \* len(semaphore)
     mu |-> 0,                        \* the goroutine holding mu, 0 for none
     wg |-> 0,                        \* the counter of wg
     pages |-> <<>>,
     scraped |-> [u \in 1..n |-> "none"],  \* how scrapePage(u) returned
     t |-> [u \in 1..n |-> <<>>],     \* the slice each goroutine has read
     out |-> [pages |-> <<>>, err |-> ""]]

\* Lines 121-122: wg.Add(1) and the go statement for the next URL.
Go ==
    /\ crawl.pc = "loop"
    /\ crawl.next <= crawl.urls
    /\ crawl' = [crawl EXCEPT !.wg = @ + 1, !.g[crawl.next] = "acquire",
                              !.next = @ + 1]
    /\ UNCHANGED nonCrawlVars

\* mutant: the goroutine does not wait for a free slot
AcquireAnyway(u) ==
    /\ crawl.pc \in {"loop", "wait"}
    /\ crawl.g[u] = "acquire"
    /\ crawl' = [crawl EXCEPT !.semaphore = @ + 1, !.g[u] = "scrape"]
    /\ UNCHANGED nonCrawlVars

\* Line 125: semaphore <- struct{}{}, which blocks while the channel is full.
Acquire(u) ==
    /\ crawl.pc \in {"loop", "wait"}
    /\ crawl.g[u] = "acquire"
    /\ crawl.semaphore < semaphoreCap
    /\ crawl' = [crawl EXCEPT !.semaphore = @ + 1, !.g[u] = "scrape"]
    /\ UNCHANGED nonCrawlVars

\* Lines 128-133: scrapePage returns, a Page or an error.
ScrapePageReturns(u, ok) ==
    /\ crawl.pc \in {"loop", "wait"}
    /\ crawl.g[u] = "scrape"
    /\ crawl' = [crawl EXCEPT !.g[u] = IF ok THEN "lock" ELSE "release",
                              !.scraped[u] = IF ok THEN "page" ELSE "err"]
    /\ UNCHANGED nonCrawlVars

\* mutant: the goroutine enters without holding mu
LockAnyway(u) ==
    /\ crawl.pc \in {"loop", "wait"}
    /\ crawl.g[u] = "lock"
    /\ crawl' = [crawl EXCEPT !.mu = u, !.g[u] = "append"]
    /\ UNCHANGED nonCrawlVars

\* Line 135: mu.Lock()
Lock(u) ==
    /\ crawl.pc \in {"loop", "wait"}
    /\ crawl.g[u] = "lock"
    /\ crawl.mu = 0
    /\ crawl' = [crawl EXCEPT !.mu = u, !.g[u] = "append"]
    /\ UNCHANGED nonCrawlVars

\* Line 136, first half: append reads the slice held by pages.
LoadPages(u) ==
    /\ crawl.pc \in {"loop", "wait"}
    /\ crawl.g[u] = "append"
    /\ crawl' = [crawl EXCEPT !.t[u] = crawl.pages, !.g[u] = "store"]
    /\ UNCHANGED nonCrawlVars

\* Lines 136-137: the slice read, with the page added, is assigned to
\* pages; then mu.Unlock().
AppendPage(u) ==
    /\ crawl.pc \in {"loop", "wait"}
    /\ crawl.g[u] = "store"
    /\ crawl' = [crawl EXCEPT !.pages = Append(crawl.t[u], u), !.mu = 0,
                              !.g[u] = "release"]
    /\ UNCHANGED nonCrawlVars

\* The deferred calls, lines 126 and 123: <-semaphore, then wg.Done().
Release(u) ==
    /\ crawl.pc \in {"loop", "wait"}
    /\ crawl.g[u] = "release"
    /\ crawl' = [crawl EXCEPT !.semaphore = @ - 1, !.wg = @ - 1,
                              !.g[u] = "done"]
    /\ UNCHANGED nonCrawlVars

\* Line 141: the loop is over, wg.Wait() is called.
Wait ==
    /\ crawl.pc = "loop"
    /\ crawl.next > crawl.urls
    /\ crawl' = [crawl EXCEPT !.pc = "wait"]
    /\ UNCHANGED nonCrawlVars

\* Lines 141-143: wg.Wait() returns, and ScrapePages with it.
Return ==
    /\ crawl.pc = "wait"
    /\ crawl.wg = 0
    /\ crawl' = [crawl EXCEPT !.pc = "returned",
                              !.out = [pages |-> crawl.pages, err |-> ""]]
    /\ UNCHANGED nonCrawlVars

InitCrawl ==
    /\ NoSearch
    /\ render = NoRender
    /\ tui = NoTui
    /\ crawl \in {ScrapeStart(n) : n \in 0..MaxURLs}
    /\ disk = NoDisk
    /\ home = NoHome
    /\ cli = NoCli
    /\ build = NoBuild

NextCrawl ==
    \/ Go
    \/ Wait
    \/ Return
    \/ \E u \in 1..MaxURLs :
          /\ u <= crawl.urls
          /\ \/ Acquire(u)
             \/ \E ok \in BOOLEAN : ScrapePageReturns(u, ok)
             \/ Lock(u)
             \/ LoadPages(u)
             \/ AppendPage(u)
             \/ Release(u)

SpecCrawl == InitCrawl /\ [][NextCrawl]_vars

\* The Go scheduler runs every goroutine that can take a step, the main
\* one included; only the return of scrapePage, an external command, is
\* not promised.
Scheduled ==
    /\ WF_vars(Go) /\ WF_vars(Wait) /\ WF_vars(Return)
    /\ \A u \in 1..MaxURLs :
          /\ WF_vars(u <= crawl.urls /\ Acquire(u))
          /\ WF_vars(u <= crawl.urls /\ Lock(u))
          /\ WF_vars(u <= crawl.urls /\ LoadPages(u))
          /\ WF_vars(u <= crawl.urls /\ AppendPage(u))
          /\ WF_vars(u <= crawl.urls /\ Release(u))

SpecCrawlFair == SpecCrawl /\ Scheduled

\* --------------------------------------------------- package devdocs: Store
\* Paths are strings of '/', '.' and letters; a file is named by the
\* components of its cleaned absolute path.
MaxKeyLen == 4

Slash == 47
Dot == 46
DotDot == <<Dot, Dot>>

\* strings.Split(s, "/")
RECURSIVE Split(_)
Split(s) ==
    IF \A i \in 1..Len(s) : s[i] # Slash THEN <<s>>
    ELSE LET i == CHOOSE k \in 1..Len(s) :
                     s[k] = Slash /\ \A j \in 1..(k - 1) : s[j] # Slash
         IN  <<SubSeq(s, 1, i - 1)>> \o Split(SubSeq(s, i + 1, Len(s)))

\* filepath.Clean, on the components of a path: empty components and "."
\* are dropped, ".." takes back the component before it, is dropped at the
\* root and kept at the start of a path that is not rooted.
RECURSIVE CleanComponents(_, _, _)
CleanComponents(comps, rooted, out) ==
    IF comps = <<>> THEN out
    ELSE LET c == Head(comps)
             out1 == IF c = <<>> \/ c = <<Dot>> THEN out
                     ELSE IF c = DotDot
                     THEN IF out # <<>> /\ out[Len(out)] # DotDot
                          THEN SubSeq(out, 1, Len(out) - 1)
                          ELSE IF rooted THEN out ELSE Append(out, c)
                     ELSE Append(out, c)
         IN  CleanComponents(Tail(comps), rooted, out1)

\* strings.Join(comps, "/")
RECURSIVE JoinSlash(_)
JoinSlash(comps) ==
    IF comps = <<>> THEN <<>>
    ELSE IF Len(comps) = 1 THEN comps[1]
    ELSE comps[1] \o <<Slash>> \o JoinSlash(Tail(comps))

\* filepath.Clean(path)
Clean(path) ==
    IF path = <<>> THEN <<Dot>>
    ELSE LET rooted == path[1] = Slash
             out == CleanComponents(Split(path), rooted, <<>>)
         IN  IF rooted THEN <<Slash>> \o JoinSlash(out)
             ELSE IF out = <<>> THEN <<Dot>> ELSE JoinSlash(out)

\* filepath.Join(dir, elem) for the absolute directory dir, given by its
\* components: the components of the cleaned path.
Join(dir, elem) == CleanComponents(dir \o Split(elem), TRUE, <<>>)

\* filepath.Dir of a file given by its components
Dir(file) == SubSeq(file, 1, Len(file) - 1)

\* The file names of the Store: "r" is rootDir, "s" the slug.
rootDir == <<<<114>>>>
TheSlug == <<115>>
DocsName == <<100, 111, 99, 115>>
ContentName == <<99, 111, 110, 116, 101, 110, 116>>
IndexJSON == <<105, 110, 100, 101, 120, Dot, 106, 115, 111, 110>>
MetaJSON == <<109, 101, 116, 97, Dot, 106, 115, 111, 110>>
DotHTML == <<Dot, 104, 116, 109, 108>>

DocDir(slug) == Join(Join(rootDir, DocsName), slug)
ContentDir(slug) == Join(DocDir(slug), ContentName)
ContentFile(slug, path) == Join(ContentDir(slug), path \o DotHTML)

\* The keys of db.json: every string of up to MaxKeyLen of '/', '.', 'a'.
Keys == SeqsUpTo({Slash, Dot, 97}, MaxKeyLen)

\* db: one page, or the page "a" and another page.
Dbs ==
    {(k :> <<120>>) : k \in Keys}
    \cup {(<<97>> :> <<120>>) @@ (k :> <<121>>) : k \in Keys \ {<<97>>}}

\* json.Marshal of a string writes '<' as the six characters \u003c,
\* json.Unmarshal reads them back as '<'.
EscapedLT == <<92, 117, 48, 48, 51, 99>>

RECURSIVE MarshalString(_)
MarshalString(s) ==
    IF s = <<>> THEN <<>>
    ELSE (IF Head(s) = 60 THEN EscapedLT ELSE <<Head(s)>>) \o MarshalString(Tail(s))

RECURSIVE UnmarshalString(_)
UnmarshalString(s) ==
    IF s = <<>> THEN <<>>
    ELSE IF HasPrefix(s, EscapedLT)
         THEN <<60>> \o UnmarshalString(SubSeq(s, Len(EscapedLT) + 1, Len(s)))
         ELSE <<Head(s)>> \o UnmarshalString(Tail(s))

\* An Index is the names of its entries: none, "a", "<a".
Indexes == {<<>>, <<<<97>>>>, <<<<97>>, <<60, 97>>>>}
MarshalIndex(index) == [i \in 1..Len(index) |-> MarshalString(index[i])]
UnmarshalIndex(data) == [i \in 1..Len(data) |-> UnmarshalString(data[i])]

\* The file system: the content of each file, and the directories.
EmptyFS == [files |-> <<>>, dirs |-> {rootDir}, ok |-> TRUE]

\* os.MkdirAll(dir): fails when a file is in the way.
MkdirAll(fs, dir) ==
    IF \E k \in 1..Len(dir) : SubSeq(dir, 1, k) \in DOMAIN fs.files
    THEN [fs EXCEPT !.ok = FALSE]
    ELSE [fs EXCEPT !.dirs = @ \cup {SubSeq(dir, 1, k) : k \in 1..Len(dir)}]

\* os.WriteFile(file, data): fails on a directory, or in no directory.
WriteFile(fs, file, data) ==
    IF file \in fs.dirs \/ Dir(file) \notin fs.dirs
    THEN [fs EXCEPT !.ok = FALSE]
    ELSE [fs EXCEPT !.files = [f \in DOMAIN fs.files \cup {file} |->
                                  IF f = file THEN data ELSE fs.files[f]]]

\* Install, lines 65-78: the loop over db, in the order keys of its keys.
RECURSIVE WriteContent(_, _, _, _)
WriteContent(fs, slug, db, keys) ==
    IF keys = <<>> THEN fs
    ELSE LET path == Head(keys)
             contentFile == ContentFile(slug, path)
             fs1 == MkdirAll(fs, Dir(contentFile))
             fs2 == WriteFile(fs1, contentFile, db[path])
         IN  IF Clean(path) # path THEN WriteContent(fs, slug, db, Tail(keys))
             ELSE IF ~fs1.ok THEN fs1
             ELSE IF ~fs2.ok THEN fs2
             ELSE WriteContent(fs2, slug, db, Tail(keys))

\* Every order in which a range over the map db may visit its keys.
KeyOrders(db) ==
    {[i \in 1..Cardinality(DOMAIN db) |-> o[i]] :
        o \in {f \in [1..Cardinality(DOMAIN db) -> DOMAIN db] :
                  \A i, j \in 1..Cardinality(DOMAIN db) : i # j => f[i] # f[j]}}

\* Install, lines 47-92, for a slug found in the manifest.
InstallFiles(fs, slug, index, db, keys) ==
    LET fs1 == MkdirAll(fs, DocDir(slug))
        fs2 == WriteFile(fs1, Join(DocDir(slug), IndexJSON), MarshalIndex(index))
        fs3 == MkdirAll(fs2, ContentDir(slug))
        fs4 == WriteContent(fs3, slug, db, keys)
        fs5 == WriteFile(fs4, Join(DocDir(slug), MetaJSON), <<slug>>)
    IN  IF ~fs1.ok THEN fs1 ELSE IF ~fs2.ok THEN fs2 ELSE IF ~fs3.ok THEN fs3
        ELSE IF ~fs4.ok THEN fs4 ELSE fs5

\* Store.LoadIndex(slug)
LoadIndex(fs, slug) ==
    LET indexPath == Join(DocDir(slug), IndexJSON)
    IN  IF indexPath \in DOMAIN fs.files
        THEN [ok |-> TRUE, index |-> UnmarshalIndex(fs.files[indexPath])]
        ELSE [ok |-> FALSE, index |-> <<>>]

\* Store.LoadContent(slug, path)
LoadContent(fs, slug, path) ==
    LET contentPath == ContentFile(slug, path)
    IN  IF contentPath \in DOMAIN fs.files
        THEN [ok |-> TRUE, content |-> fs.files[contentPath]]
        ELSE [ok |-> FALSE, content |-> <<>>]

\* NewStore(rootDir) on an empty data directory.
NewStore ==
    [pc |-> "open", fs |-> EmptyFS,
     call |-> [op |-> "none"],   \* the last call of Install, and its return
     read |-> [op |-> "none"]]   \* the last call of LoadContent, and its return

\* Store.Install(slug, index, db, manifest)
Install(slug, index, db, manifest) ==
    /\ disk.pc = "open"
    /\ disk.call.op = "none"
    /\ IF slug \notin manifest
       THEN disk' = [disk EXCEPT !.call = [op |-> "Install", ok |-> FALSE,
                                           slug |-> slug, index |-> index, db |-> db]]
       ELSE \E keys \in KeyOrders(db) :
               LET fs == InstallFiles(disk.fs, slug, index, db, keys)
               IN  disk' = [disk EXCEPT !.fs = [fs EXCEPT !.ok = TRUE],
                                        !.call = [op |-> "Install", ok |-> fs.ok,
                                                  slug |-> slug, index |-> index,
                                                  db |-> db]]
    /\ UNCHANGED nonDiskVars

\* A call of Store.LoadContent(slug, path) for a key of the db installed.
LoadContentCall(path) ==
    /\ disk.pc = "open"
    /\ disk.call.op = "Install"
    /\ disk.read.op = "none"
    /\ path \in DOMAIN disk.call.db
    /\ disk' = [disk EXCEPT !.read =
                   [op |-> "LoadContent", path |-> path,
                    ret |-> LoadContent(disk.fs, disk.call.slug, path)]]
    /\ UNCHANGED nonDiskVars

InitStore ==
    /\ NoSearch
    /\ render = NoRender
    /\ tui = NoTui
    /\ crawl = NoCrawl
    /\ disk = NewStore
    /\ home = NoHome
    /\ cli = NoCli
    /\ build = NoBuild

NextStore ==
    \/ \E index \in Indexes, db \in Dbs, manifest \in {{}, {TheSlug}} :
          Install(TheSlug, index, db, manifest)
    \/ \E path \in Keys : LoadContentCall(path)

SpecStore == InitStore /\ [][NextStore]_vars

\* ------------------------------------ package devdocs: the installed docs
\* A Store holding docs: Install, with its writes failing or not, and
\* Uninstall, for any slug.

\* The docs: "s" and "t" are in the manifest, "u" is not.
SlugT == <<116>>
SlugU == <<117>>
DocSlugs == {TheSlug, SlugT, SlugU}
TheManifest == {TheSlug, SlugT}

\* The index and the db of a doc: the entry "a" and its page, holding the
\* slug.
IndexOf(slug) == <<<<97>>>>
DbOf(slug) == (<<97>> :> slug)

\* The slugs Uninstall is called with: "", ".", "..", "s", "t", "u",
\* "s/..", "s/content" and "./t".
UninstallSlugs ==
    {<<>>, <<Dot>>, DotDot, TheSlug, SlugT, SlugU,
     TheSlug \o <<Slash>> \o DotDot, TheSlug \o <<Slash>> \o ContentName,
     <<Dot, Slash>> \o SlugT}

\* dir is path or above it.
IsPrefix(dir, path) == Len(dir) <= Len(path) /\ SubSeq(path, 1, Len(dir)) = dir

\* os.RemoveAll(path): path and everything below it.
RemoveAll(fs, path) ==
    [fs EXCEPT !.files = [f \in {g \in DOMAIN fs.files : ~IsPrefix(path, g)} |->
                             fs.files[f]],
               !.dirs = {d \in fs.dirs : ~IsPrefix(path, d)}]

\* Store.IsInstalled(slug)
IsInstalled(fs, slug) == DocDir(slug) \in fs.dirs

\* Store.ListInstalled(): the names of the directories of docs/.
StoreListInstalled(fs) ==
    {d[Len(d)] : d \in {e \in fs.dirs : Len(e) >= 1 /\ Dir(e) = Join(rootDir, DocsName)}}

\* Install, lines 47-92, one statement that can fail at a time: the doc
\* directory, index.json, the content directory, the pages, meta.json.
InstallStep(fs, slug, k) ==
    IF k = 1 THEN MkdirAll(fs, DocDir(slug))
    ELSE IF k = 2
    THEN WriteFile(fs, Join(DocDir(slug), IndexJSON), MarshalIndex(IndexOf(slug)))
    ELSE IF k = 3 THEN MkdirAll(fs, ContentDir(slug))
    ELSE IF k = 4 THEN WriteContent(fs, slug, DbOf(slug), <<<<97>>>>)
    ELSE WriteFile(fs, Join(DocDir(slug), MetaJSON), <<slug>>)

InstallStepCount == 5

\* The file system after the first n statements.
RECURSIVE InstallUpTo(_, _, _)
InstallUpTo(fs, slug, n) ==
    IF n = 0 THEN fs ELSE InstallStep(InstallUpTo(fs, slug, n - 1), slug, n)

\* The data directories a Store is opened on: any of the docs "s" and "t"
\* installed.
RECURSIVE InstallAll(_, _)
InstallAll(fs, slugs) ==
    IF slugs = <<>> THEN fs
    ELSE InstallAll(InstallUpTo(fs, Head(slugs), InstallStepCount), Tail(slugs))

InstalledFSs ==
    {InstallAll(EmptyFS, slugs) : slugs \in {<<>>, <<TheSlug>>, <<SlugT>>, <<TheSlug, SlugT>>}}

\* What is kept of a call: its arguments, the file system it found and the
\* error it returned.
CallOf(op, slug, before, err) ==
    [op |-> op, slug |-> slug, before |-> before, err |-> err]

\* Store.Install(slug, index, db, manifest) where the statement failAt
\* fails (none does when failAt is 0).
InstallDocs(slug, failAt) ==
    /\ disk.pc = "docs"
    /\ disk' =
          IF slug \notin TheManifest
          THEN [disk EXCEPT !.call = CallOf("Install", slug, disk.fs, "not found in manifest")]
          ELSE IF failAt = 0
          THEN [disk EXCEPT !.fs = InstallUpTo(@, slug, InstallStepCount),
                            !.call = CallOf("Install", slug, disk.fs, "nil")]
          ELSE [disk EXCEPT !.fs = InstallUpTo(@, slug, failAt - 1),
                            !.call = CallOf("Install", slug, disk.fs, "failed to write")]
    /\ UNCHANGED nonDiskVars

\* Store.Uninstall(slug)
Uninstall(slug) ==
    /\ disk.pc = "docs"
    /\ disk' = [disk EXCEPT !.fs = RemoveAll(@, DocDir(slug)),
                            !.call = CallOf("Uninstall", slug, disk.fs, "nil")]
    /\ UNCHANGED nonDiskVars

InitDocs ==
    /\ NoSearch
    /\ render = NoRender
    /\ tui = NoTui
    /\ crawl = NoCrawl
    /\ home = NoHome
    /\ cli = NoCli
    /\ build = NoBuild
    /\ disk \in {[pc |-> "docs", fs |-> fs, call |-> [op |-> "none"]] : fs \in InstalledFSs}

NextDocs ==
    \/ \E slug \in DocSlugs, failAt \in 0..InstallStepCount : InstallDocs(slug, failAt)
    \/ \E slug \in UninstallSlugs : Uninstall(slug)

SpecDocs == InitDocs /\ [][NextDocs]_vars

\* --------------------------------------------- package config: MigrateDataDir
\* The data directory: what is in <dataDir>/docs/docs (the old place), and
\* which docs are in <dataDir>/docs (the new place).
MaxSlugs == 2
MaxRuns == 2

Slugs == 1..MaxSlugs
\* the entry named "docs"
DocsEntry == 0
OldNames == Slugs \cup {DocsEntry}

\* What a directory holds under a name: a directory or a plain file, put
\* there under the old layout or under the new one.
OldEntries == {[isDir |-> d, layout |-> "old"] : d \in BOOLEAN}
NewDoc == [isDir |-> TRUE, layout |-> "new"]

\* The functions from a subset of S to T.
PartialFunctions(S, T) == UNION {[D -> T] : D \in SUBSET S}

\* The data directories a run can find: the old directory absent, or there
\* with any entries; any docs at the new place.
DataDirs ==
    {[oldExists |-> TRUE, old |-> old, new |-> new] :
        old \in PartialFunctions(OldNames, OldEntries),
        new \in PartialFunctions(Slugs, {NewDoc})}
    \cup {[oldExists |-> FALSE, old |-> <<>>, new |-> new] :
        new \in PartialFunctions(Slugs, {NewDoc})}

\* os.Stat(newSlugPath) finds something: a doc at the new place, or, for
\* the entry named "docs", the old directory itself.
ExistsAtNew(dir, name) == name \in DOMAIN dir.new \/ name = DocsEntry

\* mutant: a directory is moved whether or not the new place is taken
MovedAlways(dir) ==
    {n \in DOMAIN dir.old : dir.old[n].isDir /\ n # DocsEntry}

\* Lines 33-55: the entries that are moved, the directories whose new place
\* is free.
Moved(dir) ==
    {n \in DOMAIN dir.old : dir.old[n].isDir /\ ~ExistsAtNew(dir, n)}

\* MigrateDataDir(dataDir) on dir, with no failure of Stat, ReadDir or
\* Rename: the data directory it leaves and what it returns.
Migrate(dir) ==
    IF ~dir.oldExists THEN [dir |-> dir, err |-> "nil"]
    ELSE LET moved == Moved(dir)
             rest == [n \in DOMAIN dir.old \ moved |-> dir.old[n]]
             new1 == [n \in DOMAIN dir.new \cup moved |->
                         IF n \in moved THEN dir.old[n] ELSE dir.new[n]]
             \* os.Remove(oldPath) fails on a directory that is not empty
             removed == moved # {} /\ DOMAIN rest = {}
         IN  [dir |-> [oldExists |-> ~removed, old |-> rest, new |-> new1],
              err |-> "nil"]

\* initConfig: a run of the program calls MigrateDataDir.
MigrateDataDir ==
    /\ home.pc = "ready"
    /\ home.runs < MaxRuns
    /\ LET ret == Migrate(home.dir)
       IN  home' = [home EXCEPT !.dir = ret.dir, !.err = ret.err,
                                !.runs = @ + 1]
    /\ UNCHANGED nonHomeVars

\* Between runs a doc is installed at the new place (Store.Install).
InstallDoc(slug) ==
    /\ home.pc = "ready"
    /\ slug \notin DOMAIN home.dir.new
    /\ home' = [home EXCEPT
                   !.dir.new = [n \in DOMAIN @ \cup {slug} |->
                                   IF n = slug THEN NewDoc ELSE @[n]],
                   !.runs = 0]
    /\ UNCHANGED nonHomeVars

InitHome ==
    /\ NoSearch
    /\ render = NoRender
    /\ tui = NoTui
    /\ crawl = NoCrawl
    /\ disk = NoDisk
    /\ home \in {[pc |-> "ready", dir |-> d, err |-> "nil",
                  runs |-> 0]   \* the runs since the directory last changed otherwise
                    : d \in DataDirs}
    /\ cli = NoCli
    /\ build = NoBuild

NextHome ==
    \/ MigrateDataDir
    \/ \E slug \in Slugs : InstallDoc(slug)

SpecHome == InitHome /\ [][NextHome]_vars

\* ------------------------------------------------- package cli: runSearch
\* The search command: dsearch [--doc d]... [--limit n] [--json | --list] query

\* The queries of the command: "a", "ab", "bA" and "z", which no entry matches.
CliQueries == {<<97>>, <<97, 98>>, <<98, 65>>, <<122>>}

ErrNoneInstalled == "no documentation installed"

\* The fields of search.Result in the order of the struct, devdocs.Entry
\* embedded, each with the name its json tag gives ("" for no tag).
ResultFields ==
    <<[field |-> "Name", tag |-> "name"],
      [field |-> "Path", tag |-> "path"],
      [field |-> "Type", tag |-> "type"],
      [field |-> "Slug", tag |-> ""],
      [field |-> "Score", tag |-> ""]>>

\* encoding/json: a field is written under the name of its tag, or under
\* its Go name when it has none.
JSONKey(f) == IF f.tag # "" THEN f.tag ELSE f.field

\* json.Encoder.Encode of one Result: its keys in the order of the fields,
\* and the value under each key.
EncodeResult(r) ==
    [keys |-> [i \in 1..Len(ResultFields) |-> JSONKey(ResultFields[i])],
     values |-> [k \in {JSONKey(ResultFields[i]) : i \in 1..Len(ResultFields)} |->
                   LET f == CHOOSE g \in Range(ResultFields) : JSONKey(g) = k
                   IN  r[f.field]]]

\* enc.Encode(results): the array of the Results in their order.
EncodeResults(results) == [k \in 1..Len(results) |-> EncodeResult(results[k])]

\* What runSearch does with what Search returned: the error returned, or
\* the results written as JSON or as a list.
SearchOutput(out, docs, query, jsonOutput) ==
    [pc |-> "done", cmd |-> "search", docs |-> docs, query |-> query,
     jsonOutput |-> jsonOutput,
     status |-> out.status, err |-> out.err, results |-> out.results,
     stdout |-> IF out.status = "ok" /\ jsonOutput
                THEN EncodeResults(out.results) ELSE <<>>]

\* loadSearchEngine, lines 345-362: the engines it may return for the
\* slugs to load, each searched by runSearch with a nil filter.
SearchLoaded(slugsToLoad, limit, query) ==
    {Search(e, [i \in 1..Len(slugsToLoad) |-> store[slugsToLoad[i]]], query, <<>>) :
        e \in New([i \in 1..Len(slugsToLoad) |-> i],
                  [slug \in Range(slugsToLoad) |-> LastLoad(slugsToLoad, slug)],
                  limit)}

\* runSearch with the flags --doc docs, --limit limit, --json or --list.
RunSearch(docs, limit, query, jsonOutput) ==
    /\ cli.pc = "search"
    /\ IF DOMAIN store = {}
       THEN cli' = SearchOutput(Failed(ErrNoneInstalled), docs, query, jsonOutput)
       ELSE \E out \in SearchLoaded(SlugsToLoad(docs), limit, query) :
               cli' = SearchOutput(out, docs, query, jsonOutput)
    /\ UNCHANGED nonCliVars

\* The command exits; the next one is started on the same data directory.
ExitSearch ==
    /\ cli.pc = "done"
    /\ cli.cmd = "search"
    /\ cli' = [pc |-> "search"]
    /\ UNCHANGED nonCliVars

InitCli ==
    /\ store \in Stores
    /\ loaded = "none"
    /\ engine = NoEngine
    /\ heap = <<>>
    /\ origin = <<>>
    /\ calls = [c \in Callers |-> Idle]
    /\ frames = [c \in Callers |-> NoFrame]
    /\ render = NoRender
    /\ tui = NoTui
    /\ crawl = NoCrawl
    /\ disk = NoDisk
    /\ home = NoHome
    /\ cli = [pc |-> "search"]
    /\ build = NoBuild

NextCli ==
    \/ \E docs \in LoadFlags, limit \in Limits, query \in CliQueries,
          jsonOutput \in BOOLEAN : RunSearch(docs, limit, query, jsonOutput)
    \/ ExitSearch

SpecCli == InitCli /\ [][NextCli]_vars

\* ------------------------------------------------ package cli: runInstall
\* The install command: dsearch install <doc>...
MaxArgs == 2

At == 64
Tilde == 126

\* strings.Split(input, "@")
RECURSIVE SplitAt(_)
SplitAt(s) ==
    IF \A i \in 1..Len(s) : s[i] # At THEN <<s>>
    ELSE LET i == CHOOSE k \in 1..Len(s) :
                     s[k] = At /\ \A j \in 1..(k - 1) : s[j] # At
         IN  <<SubSeq(s, 1, i - 1)>> \o SplitAt(SubSeq(s, i + 1, Len(s)))

\* parseDocSlug: "react@18" is the slug "react~18".
DocSlugOfParts(input, parts) ==
    IF Len(parts) = 2 THEN parts[1] \o <<Tilde>> \o parts[2] ELSE input

parseDocSlug(input) == DocSlugOfParts(input, SplitAt(input))

\* The slugs of the manifest: "r" and "r~v".
ManifestSlugs == {<<114>>, <<114, Tilde, 118>>}

\* The arguments given: "r", "r@v", "r~v", "r@v@v" and "x".
InstallInputs ==
    {<<114>>, <<114, At, 118>>, <<114, Tilde, 118>>,
     <<114, At, 118, At, 118>>, <<120>>}

InstallArgs == SeqsUpTo(InstallInputs, MaxArgs) \ {<<>>}

ErrAllFailed == "all installations failed"
ErrSomeFailed == "%d installation(s) failed (see above)"
ErrDirs == "failed to create directories"
ErrManifest == "failed to fetch manifest"

\* How the installation of a doc of the manifest ends: the index or the
\* db is not fetched, Store.Install fails, or the doc is installed.
Fetches == {"failed to fetch index", "failed to fetch db", "failed to install", "ok"}

\* mutant: the loop stops at the first argument that fails
AfterAttemptStopping(c, result) ==
    IF result = "ok"
    THEN [c EXCEPT !.i = @ + 1, !.attempts = Append(@, result),
                   !.successCount = @ + 1]
    ELSE [c EXCEPT !.i = Len(c.args) + 1, !.attempts = Append(@, result),
                   !.installErrors = @ + 1]

\* Lines 69-111: the body of the loop for one argument, once it is known
\* how its installation ends.
AfterAttempt(c, result) ==
    IF result = "ok"
    THEN [c EXCEPT !.i = @ + 1, !.attempts = Append(@, result),
                   !.successCount = @ + 1]
    ELSE [c EXCEPT !.i = @ + 1, !.attempts = Append(@, result),
                   !.installErrors = @ + 1]

\* Lines 34-56: the directories are made and the manifest is loaded or
\* fetched, or runInstall returns the error.
InstallBegin(outcome) ==
    /\ cli.pc = "install"
    /\ cli' = IF outcome = "ok" THEN [cli EXCEPT !.pc = "loop"]
              ELSE [cli EXCEPT !.pc = "done", !.err = outcome]
    /\ UNCHANGED nonCliVars

\* The argument is not a doc of the manifest.
InstallUnknown ==
    /\ cli.pc = "loop"
    /\ cli.i <= Len(cli.args)
    /\ parseDocSlug(cli.args[cli.i]) \notin ManifestSlugs
    /\ cli' = AfterAttempt(cli, "not found in DevDocs catalog")
    /\ UNCHANGED nonCliVars

\* The argument is a doc of the manifest: it is fetched and installed.
InstallDocArg(result) ==
    /\ cli.pc = "loop"
    /\ cli.i <= Len(cli.args)
    /\ parseDocSlug(cli.args[cli.i]) \in ManifestSlugs
    /\ cli' = AfterAttempt(cli, result)
    /\ UNCHANGED nonCliVars

\* Lines 113-124: the report and the error returned.
InstallReport ==
    /\ cli.pc = "loop"
    /\ cli.i > Len(cli.args)
    /\ cli' = [cli EXCEPT
                  !.pc = "done",
                  !.err = IF cli.installErrors > 0
                          THEN IF cli.successCount = 0 THEN ErrAllFailed
                               ELSE ErrSomeFailed
                          ELSE "nil"]
    /\ UNCHANGED nonCliVars

InitInstall ==
    /\ NoSearch
    /\ render = NoRender
    /\ tui = NoTui
    /\ crawl = NoCrawl
    /\ disk = NoDisk
    /\ home = NoHome
    /\ build = NoBuild
    /\ cli \in {[pc |-> "install", cmd |-> "install", args |-> args, i |-> 1,
                 attempts |-> <<>>, installErrors |-> 0, successCount |-> 0,
                 err |-> "nil"] : args \in InstallArgs}

NextInstall ==
    \/ \E outcome \in {"ok", ErrDirs, ErrManifest} : InstallBegin(outcome)
    \/ InstallUnknown
    \/ \E result \in Fetches : InstallDocArg(result)
    \/ InstallReport

SpecInstall == InitInstall /\ [][NextInstall]_vars

\* ------------------------------------------- package docset: Builder.Update
\* The searchIndex table of a docset is the set of its rows (name, type,
\* path): the unique index anchor allows no two rows with the same three.
MaxRows == 2
MaxEntries == 2

HTTPS == <<104, 116, 116, 112, 115, 58, 47, 47>>
HTTP == <<104, 116, 116, 112, 58, 47, 47>>
DotMD == <<46, 109, 100>>
Underscore == 95

\* strings.TrimPrefix
TrimPrefix(s, prefix) ==
    IF HasPrefix(s, prefix) THEN SubSeq(s, Len(prefix) + 1, Len(s)) ELSE s

\* urlToFilename, for a URL of up to 200 characters
urlToFilename(url) ==
    ReplaceAll(ReplaceAll(ReplaceAll(ReplaceAll(
        TrimPrefix(TrimPrefix(url, HTTPS), HTTP),
        <<47>>, <<Underscore>>), <<63>>, <<Underscore>>),
        <<38>>, <<Underscore>>), <<61>>, <<Underscore>>)

Row(name, type, path) == [Name |-> name, Type |-> type, Path |-> path]
ExtractedEntry(name, type, path, hash) ==
    [Name |-> name, Type |-> type, Path |-> path, Hash |-> hash]

\* The URLs of pages: "https://h/p", "http://h/p" and "h/q".
URLp == HTTPS \o <<104, 47, 112>>
URLpPlain == HTTP \o <<104, 47, 112>>
URLq == <<104, 47, 113>>

\* The entries extracted from the pages: "a" and "b", of type "T" or "U",
\* on page p or q, with the hash of their content; and two more of "a",
\* one on the http page, one with no hash.
NewEntryPool ==
    {ExtractedEntry(n, t, u, "x") : n \in {"a", "b"}, t \in {"T", "U"}, u \in {URLp, URLq}}
    \cup {ExtractedEntry("a", "T", URLpPlain, "x"), ExtractedEntry("a", "T", URLp, "")}

EntryLists == SeqsUpTo(NewEntryPool, MaxEntries)

\* The rows a docset can hold: names, types and local paths.
LocalPaths == {urlToFilename(u) \o DotMD : u \in {URLp, URLq}}
RowPool == {Row(n, t, p) : n \in {"a", "b"}, t \in {"T", "U"}, p \in LocalPaths}
Tables == {rows \in SUBSET RowPool : Cardinality(rows) <= MaxRows}

\* convertToLocalPaths
convertToLocalPaths(entries) ==
    [i \in 1..Len(entries) |->
        [entries[i] EXCEPT !.Path = urlToFilename(@) \o DotMD]]

\* loadExistingEntries: the rows, with no Hash.
loadExistingEntries(rows) ==
    {ExtractedEntry(r.Name, r.Type, r.Path, "") : r \in rows}

\* The key of computeDiff, "name:type:path": for names and types with no
\* ':' two entries have the same key when they have the same row.
KeyOf(e) == Row(e.Name, e.Type, e.Path)

\* newMap: the last entry of each key.
NewMap(newEntries) ==
    {newEntries[i] : i \in {j \in 1..Len(newEntries) :
        \A k \in (j + 1)..Len(newEntries) : KeyOf(newEntries[k]) # KeyOf(newEntries[j])}}

\* computeDiff
ToInsert(newEntries, existingEntries) ==
    {e \in NewMap(newEntries) : \A x \in existingEntries : KeyOf(x) # KeyOf(e)}

ToUpdate(newEntries, existingEntries) ==
    {e \in NewMap(newEntries) :
        \E x \in existingEntries : KeyOf(x) = KeyOf(e) /\ x.Hash # e.Hash}

ToDelete(newEntries, existingEntries) ==
    {x \in existingEntries : \A e \in NewMap(newEntries) : KeyOf(e) # KeyOf(x)}

\* INSERT INTO searchIndex(name, type, path) VALUES (?, ?, ?), for each
\* entry to insert.
InsertRows(rows, toInsert) == rows \cup {KeyOf(e) : e \in toInsert}

\* UPDATE searchIndex SET type = ?, path = ? WHERE name = ?: every row of
\* that name takes the type and the path, which the unique index refuses
\* when there are two of them.
UpdateFails(rows, toUpdate) ==
    \E e \in toUpdate : Cardinality({r \in rows : r.Name = e.Name}) >= 2

UpdateRows(rows, toUpdate) ==
    {IF \E e \in toUpdate : e.Name = r.Name
     THEN KeyOf(CHOOSE e \in toUpdate : e.Name = r.Name)
     ELSE r : r \in rows}

\* DELETE FROM searchIndex WHERE name = ?, for each entry to delete.
DeleteRows(rows, toDelete) ==
    {r \in rows : \A x \in toDelete : x.Name # r.Name}

\* The transaction of Update on the table.
Transaction(rows, newEntries, existingEntries) ==
    IF UpdateFails(InsertRows(rows, ToInsert(newEntries, existingEntries)),
                   ToUpdate(newEntries, existingEntries))
    THEN [err |-> "updating entry", rows |-> rows]
    ELSE [err |-> "nil",
          rows |-> DeleteRows(
                       UpdateRows(InsertRows(rows, ToInsert(newEntries, existingEntries)),
                                  ToUpdate(newEntries, existingEntries)),
                       ToDelete(newEntries, existingEntries))]

\* What is kept of the call: its entries, the table it found, its return.
Updated(entries, before, ret) ==
    [pc |-> "done", searchIndex |-> ret.rows, entries |-> entries,
     before |-> before, err |-> ret.err]

\* Builder.Update(entries, pages), the pages and Info.plist being written.
Update(entries) ==
    /\ build.pc = "ready"
    /\ build' = Updated(entries, build.searchIndex,
                        Transaction(build.searchIndex, convertToLocalPaths(entries),
                                    loadExistingEntries(build.searchIndex)))
    /\ UNCHANGED nonBuildVars

InitBuild ==
    /\ NoSearch
    /\ render = NoRender
    /\ tui = NoTui
    /\ crawl = NoCrawl
    /\ disk = NoDisk
    /\ home = NoHome
    /\ cli = NoCli
    /\ build \in {[pc |-> "ready", searchIndex |-> rows] : rows \in Tables}

NextBuild == \E entries \in EntryLists : Update(entries)

SpecBuild == InitBuild /\ [][NextBuild]_vars

\* =========================================================== the claims
\* The call of caller 1, the one caller of Spec.
call == calls[1]
Done == call.pc = "done"

\* The Indices a call with these docSlugs is to search: all the engine
\* holds, or those registered under a slug of docSlugs.
Selected(docSlugs) ==
    IF docSlugs = <<>> THEN Range(engine.indices)
    ELSE {engine.indicesBySlug[s] : s \in Range(docSlugs) \cap DOMAIN engine.indicesBySlug}

\* The entries of the Indices to search.
SelectedEntries(docSlugs) ==
    UNION {Range(heap[idx]) : idx \in Selected(docSlugs)}

\* The candidates of the call: position k of the Indices searched, entry i.
CandidatePositions ==
    LET its == IndicesToSearch(engine, call.docSlugs)
    IN  UNION {{<<k, i>> : i \in 1..Len(heap[its[k]])} : k \in 1..Len(its)}

MatchingPositions ==
    LET its == IndicesToSearch(engine, call.docSlugs)
    IN  {p \in CandidatePositions : Matched(call.query, heap[its[p[1]]][p[2]].Name)}

Min(a, b) == IF a <= b THEN a ELSE b

StrLeq(s, t) == ~StrLess(t, s)

\* C1: a call whose working set holds at least one entry, none of which the
\* query fuzzy-matches, fails with the NoResults error. (Stated for limits
\* that are not negative: with a negative limit the call panics, see C5.)
C1_NoMatchFails ==
    (/\ Done
     /\ engine.limit >= 0
     /\ SelectedEntries(call.docSlugs) # {}
     /\ \A en \in SelectedEntries(call.docSlugs) : ~Matched(call.query, en.Name))
    => (call.out.status = "error" /\ call.out.err = ErrNoResults)

\* C2: a call with a non-empty docSlugs none of which is a loaded slug fails
\* with the NoMatchingSources error, returns no results and no warning, and
\* the error differs from NoResults.
C2_UnknownFilterFails ==
    (/\ Done
     /\ call.docSlugs # <<>>
     /\ \A s \in Range(call.docSlugs) : s \notin DOMAIN engine.indicesBySlug)
    => /\ call.out.status = "error"
       /\ call.out.err = ErrNoMatchingDocs
       /\ call.out.err # ErrNoResults
       /\ call.out.results = <<>>
       /\ call.out.warning = <<>>

C2_Witness ==
    /\ Done
    /\ call.docSlugs = <<UnknownSlug, UnknownSlug>>
    /\ call.query = <<97>>
    /\ Len(engine.indices) > 1
    /\ call.out.err = ErrNoMatchingDocs

\* C3: the results of a successful call are in descending order of score,
\* and results of equal score are in ascending order of name.
C3_Sorted ==
    (Done /\ call.out.status = "ok")
    => \A i, j \in 1..Len(call.out.results) :
          i < j =>
            LET a == call.out.results[i]
                b == call.out.results[j]
            IN  /\ a.Score >= b.Score
                /\ a.Score = b.Score => StrLeq(a.Name, b.Name)

\* a successful call with three results: two of equal score and different
\* names, and one of another score
C3_Witness ==
    /\ Done
    /\ call.out.status = "ok"
    /\ Len(call.out.results) >= 3
    /\ \E i, j, k \in 1..Len(call.out.results) :
          /\ call.out.results[i].Score = call.out.results[j].Score
          /\ call.out.results[i].Name # call.out.results[j].Name
          /\ call.out.results[k].Score # call.out.results[i].Score

\* How often a Result occurs in a sequence of Results.
Count(rs, r) == Cardinality({i \in 1..Len(rs) : rs[i] = r})

\* C4: with a limit N >= 1 a successful call returns min(N, number of
\* matching candidates) results, and these are the first of the sorted
\* matches: each is a match, and no match left out is ordered before one
\* that is kept.
C4_LimitKeepsFirst ==
    (Done /\ engine.limit >= 1 /\ call.out.status = "ok")
    => LET all == BuildResults(call.query,
                      CollectEntries(engine, heap,
                          IndicesToSearch(engine, call.docSlugs)))
           kept == call.out.results
       IN  /\ Len(kept) = Min(engine.limit, Cardinality(MatchingPositions))
           /\ Len(kept) <= engine.limit
           /\ \A r \in Range(kept) : Count(kept, r) <= Count(all, r)
           /\ \A r \in Range(all) :
                 Count(kept, r) < Count(all, r)
                 => \A q \in Range(kept) : ~ResultLess(r, q)

\* a successful call that had more matches than its limit N >= 1
C4_Witness ==
    /\ Done
    /\ call.out.status = "ok"
    /\ engine.limit >= 1
    /\ Cardinality(MatchingPositions) > engine.limit
    /\ Len(call.out.results) = engine.limit

\* C5: with a limit <= 0, a call whose query has at least one match returns
\* successfully with no results, and does not panic.
C5_NonPositiveLimitEmpty ==
    (Done /\ engine.limit <= 0 /\ MatchingPositions # {})
    => (call.out.status = "ok" /\ call.out.results = <<>>)

\* Whether q occurs in s as a contiguous, case-sensitive substring.
IsSubstring(q, s) ==
    \E i \in 0..(Len(s) - Len(q)) : SubSeq(s, i + 1, i + Len(q)) = q

\* Whether entry en is among the results.
Among(en, rs) ==
    \E k \in 1..Len(rs) :
        rs[k].Name = en.Name /\ rs[k].Path = en.Path /\ rs[k].Type = en.Type

C8_ResultCarriesItsSource ==
    (Done /\ call.out.status = "ok")
    => \A k \in 1..Len(call.out.results) :
          LET r == call.out.results[k]
          IN  \E idx \in Selected(call.docSlugs) :
                 /\ r.Slug = origin[idx]
                 /\ \E en \in Range(heap[idx]) :
                       r.Name = en.Name /\ r.Path = en.Path /\ r.Type = en.Type

\* C9: with docSlugs given, every result of a successful call has a Slug
\* that is in docSlugs and is an entry of the doc installed under that
\* slug, so that an entry only found in a doc that was not selected is not
\* returned; and, the limit allowing, every matching entry of every loaded
\* doc named in docSlugs is returned under that slug.
C9_OnlySelectedSources ==
    (Done /\ call.docSlugs # <<>> /\ call.out.status = "ok")
    => /\ \A k \in 1..Len(call.out.results) :
             LET r == call.out.results[k]
             IN  /\ r.Slug \in Range(call.docSlugs)
                 /\ r.Slug \in DOMAIN store
                 /\ \E en \in Range(store[r.Slug]) :
                       r.Name = en.Name /\ r.Path = en.Path /\ r.Type = en.Type
       /\ engine.limit >= Cardinality(CandidatePositions) =>
             \A slug \in Range(call.docSlugs) \cap DOMAIN engine.indicesBySlug :
                \A en \in Range(heap[engine.indicesBySlug[slug]]) :
                   Matched(call.query, en.Name) =>
                      \E k \in 1..Len(call.out.results) :
                         call.out.results[k] =
                            [Name |-> en.Name, Path |-> en.Path, Type |-> en.Type,
                             Slug |-> slug,
                             Score |-> MatchOne(call.query, en.Name).Score]

\* docs 1 and 2 loaded, doc 2 selected: "bA", found in doc 2 only, is
\* returned and nothing of doc 1 is
C9_Witness ==
    /\ Done
    /\ Len(engine.indices) = 2
    /\ call.docSlugs = <<2>>
    /\ call.query = <<98>>
    /\ call.out.status = "ok"
    /\ \E k \in 1..Len(call.out.results) : call.out.results[k].Name = <<98, 65>>
    /\ \A k \in 1..Len(call.out.results) : call.out.results[k].Slug = 2

\* C10: no step of Search changes the engine or an Index, and every call,
\* whatever the other caller does meanwhile, ends with the outcome of
\* running Search alone.
C10_SearchIsPure ==
    /\ [](\A c \in Callers :
            calls[c].pc = "done"
            => calls[c].out = Search(engine, heap, calls[c].query, calls[c].docSlugs))
    /\ [][loaded = "ok" => (engine' = engine /\ heap' = heap)]_vars

\* caller 1 has returned results while caller 2 is inside Search, its
\* results sorted and not yet truncated
C10_Witness ==
    /\ calls[1].pc = "done"
    /\ calls[2].pc = "limit"
    /\ calls[1].out.status = "ok"
    /\ calls[1].out.results # <<>>
    /\ frames[2].results # <<>>

Rendered == render.pc = "done"

\* C12: Render never returns an error: in Text mode and in Markdown mode,
\* for every input, whether or not the extraction, the parsing or the
\* conversion succeeds, it returns with a nil error.
C12_RenderNeverFails ==
    Rendered => render.err = ""

\* Whether s holds n or more newlines in a row.
HasNewlineRun(s, n) ==
    \E i \in 1..(Len(s) - n + 1) : \A k \in 0..(n - 1) : s[i + k] = LF

\* C13: the Markdown output holds no run of 3 or more newlines and has no
\* leading or trailing white space.
C13_NoBlankRuns ==
    (Rendered /\ render.format = FormatMD)
    => /\ ~HasNewlineRun(render.out, 3)
       /\ render.out = TrimSpace(render.out)

Converted(format, content) ==
    IF format = FormatMD THEN renderMarkdown(content) ELSE renderText(content)

\* C15: when the extraction fails, in both modes, the conversion is given
\* the original input as it is, and Render returns what that conversion
\* returns: no error unless the conversion itself fails.
C15_FallbackToOriginal ==
    (Rendered /\ ~render.extracted)
    => /\ render.cleanContent = render.htmlContent
       /\ RenderOutcome(render.out, render.err)
             = Converted(render.format, render.htmlContent)
       /\ ~ParseFails(render.htmlContent) => render.err = ""

\* Text mode, the extraction failed on a document of a script and a <pre>:
\* both are in the output
C15_Witness ==
    /\ Rendered
    /\ render.format = FormatText
    /\ ~render.extracted
    /\ render.htmlContent = <<Node(0, "script", <<115>>), Node(0, "pre", <<120, 120>>)>>
    /\ render.cleanContent = render.htmlContent
    /\ render.err = ""
    /\ 115 \in Range(render.out)
    /\ 120 \in Range(render.out)

\* C16: an error of a search is recoverable in the interactive UI: once a
\* later search has finished with results, the UI is not showing the error
\* but these results.
C16_SearchErrorsRecoverable ==
    (tui.pc = "on" /\ tui.handled = "finished" /\ tui.items # <<>>)
    => (View.error = "" /\ View.list = tui.items)

\* The goroutines that are inside scrapePage.
Scraping == {u \in 1..crawl.urls : crawl.g[u] = "scrape"}

\* C17: during ScrapePages, whatever the number of URLs and the order in
\* which the goroutines run, at most 2 calls of scrapePage are executing.
C17_AtMostTwoScrapes ==
    crawl.pc \in {"loop", "wait", "returned"} => Cardinality(Scraping) <= 2

\* three URLs: two goroutines inside scrapePage, the third waiting for a
\* slot
C17_Witness ==
    /\ crawl.pc = "wait"
    /\ crawl.urls = 3
    /\ Cardinality(Scraping) = 2
    /\ \E u \in 1..crawl.urls : crawl.g[u] = "acquire"
    /\ crawl.semaphore = semaphoreCap

\* Install has returned without error.
Installed == disk.pc = "open" /\ disk.call.op = "Install" /\ disk.call.ok

\* C18: after a successful Install(slug, index, db, manifest), LoadIndex
\* returns the index installed, LoadContent returns for every key of db the
\* content db holds for it, and LoadContent fails for every path that is
\* not a key of db.
C18_InstallThenLoad ==
    Installed =>
      /\ LoadIndex(disk.fs, disk.call.slug) = [ok |-> TRUE, index |-> disk.call.index]
      /\ \A path \in DOMAIN disk.call.db :
            LoadContent(disk.fs, disk.call.slug, path)
               = [ok |-> TRUE, content |-> disk.call.db[path]]
      /\ \A path \in Keys \ DOMAIN disk.call.db :
            ~LoadContent(disk.fs, disk.call.slug, path).ok

\* Whether file is below the directory dir.
Below(file, dir) ==
    Len(file) > Len(dir) /\ SubSeq(file, 1, Len(dir)) = dir

\* C19: whatever the keys of db, Install writes no file outside the content
\* directory of the doc, its index.json and meta.json apart.
C19_NoPathTraversal ==
    (disk.pc = "open" /\ disk.call.op = "Install")
    => \A file \in DOMAIN disk.fs.files :
          \/ file = Join(DocDir(disk.call.slug), IndexJSON)
          \/ file = Join(DocDir(disk.call.slug), MetaJSON)
          \/ Below(file, ContentDir(disk.call.slug))

\* This step is a run of MigrateDataDir.
IsMigration == home.pc = "ready" /\ home'.runs = home.runs + 1

\* C20: a run of MigrateDataDir on what the previous run left changes
\* nothing in the data directory and returns nil; and no run changes or
\* removes a doc that is at the new place.
C20_MigrationIdempotent ==
    /\ [][(IsMigration /\ home.runs >= 1)
            => (home'.dir = home.dir /\ home'.err = "nil")]_vars
    /\ [][IsMigration
            => \A n \in DOMAIN home.dir.new :
                  n \in DOMAIN home'.dir.new /\ home'.dir.new[n] = home.dir.new[n]]_vars

\* two runs in a row: doc 1 was moved to the new place, doc 2 stays in the
\* old directory because a doc 2 was at the new place already
C20_Witness ==
    /\ home.pc = "ready"
    /\ home.runs = 2
    /\ home.err = "nil"
    /\ home.dir.oldExists
    /\ DOMAIN home.dir.old = {2}
    /\ home.dir.old[2].isDir
    /\ home.dir.new = (1 :> [isDir |-> TRUE, layout |-> "old"]) @@ (2 :> NewDoc)

\* The search command has returned results.
SearchPrinted == cli.pc = "done" /\ cli.cmd = "search" /\ cli.status = "ok"

\* C21: with --doc given, every result of the search command is an entry
\* of an installed doc that --doc names.
C21_OnlyNamedDocs ==
    (SearchPrinted /\ cli.docs # <<>>)
    => \A k \in 1..Len(cli.results) :
          \E d \in Range(cli.docs) \cap DOMAIN store :
             \E en \in Range(store[d]) :
                /\ cli.results[k].Name = en.Name
                /\ cli.results[k].Path = en.Path
                /\ cli.results[k].Type = en.Type

\* runInstall has returned.
InstallDone == cli.pc = "done" /\ cli.cmd = "install"

\* The arguments whose installation succeeded, and those that failed.
Succeeded == {k \in 1..Len(cli.attempts) : cli.attempts[k] = "ok"}
FailedArgs == {k \in 1..Len(cli.attempts) : cli.attempts[k] # "ok"}

C23_JsonKeys ==
    (SearchPrinted /\ cli.jsonOutput)
    => /\ Len(cli.stdout) = Len(cli.results)
       /\ \A k \in 1..Len(cli.stdout) :
             /\ DOMAIN cli.stdout[k].values =
                   {"name", "path", "type", "source_id", "score"}
             /\ cli.stdout[k].values["name"] = cli.results[k].Name
             /\ cli.stdout[k].values["path"] = cli.results[k].Path
             /\ cli.stdout[k].values["type"] = cli.results[k].Type
             /\ cli.stdout[k].values["source_id"] = cli.results[k].Slug
             /\ cli.stdout[k].values["score"] = cli.results[k].Score

\* The files below the directory of doc slug.
DocFiles(fs, slug) ==
    [f \in {g \in DOMAIN fs.files : IsPrefix(DocDir(slug), g)} |-> fs.files[f]]

\* C24: after Uninstall(slug) has returned nil the doc is not installed,
\* the docs listed are those listed before without slug, and the files of
\* every other doc are as they were.
C24_UninstallExactlyThat ==
    (disk.pc = "docs" /\ disk.call.op = "Uninstall" /\ disk.call.err = "nil")
    => /\ ~IsInstalled(disk.fs, disk.call.slug)
       /\ StoreListInstalled(disk.fs) =
             StoreListInstalled(disk.call.before) \ {disk.call.slug}
       /\ \A d \in StoreListInstalled(disk.call.before) \ {disk.call.slug} :
             DocFiles(disk.fs, d) = DocFiles(disk.call.before, d)

\* C29: after Install has returned an error for a slug that was not
\* installed, the slug is not installed and not listed.
C29_FailedInstallLeavesNothing ==
    (/\ disk.pc = "docs"
     /\ disk.call.op = "Install"
     /\ disk.call.err # "nil"
     /\ ~IsInstalled(disk.call.before, disk.call.slug))
    => /\ ~IsInstalled(disk.fs, disk.call.slug)
       /\ disk.call.slug \notin StoreListInstalled(disk.fs)

\* How many times c occurs in the first k characters of s.
CountIn(s, c, k) == Cardinality({i \in 1..k : s[i] = c})

\* C25: in the output of Text mode every "]" closes a "[" written before
\* it, and every "[" is closed.
C25_BracketsBalanced ==
    (Rendered /\ render.format = FormatText /\ render.err = "")
    => /\ \A k \in 1..Len(render.out) :
             CountIn(render.out, RBracket, k) <= CountIn(render.out, LBracket, k)
       /\ CountIn(render.out, RBracket, Len(render.out))
             = CountIn(render.out, LBracket, Len(render.out))

\* C26: after Update has returned nil the table holds exactly the rows of
\* the new entries, with their local paths.
C26_TableIsNewEntries ==
    (build.pc = "done" /\ build.err = "nil")
    => build.searchIndex =
          {Row(build.entries[i].Name, build.entries[i].Type,
               urlToFilename(build.entries[i].Path) \o DotMD) :
              i \in 1..Len(build.entries)}

\* The loaded slugs of docSlugs, each once, in the order they come first.
RECURSIVE Once(_, _)
Once(docSlugs, seen) ==
    IF docSlugs = <<>> THEN <<>>
    ELSE IF Head(docSlugs) \in seen \/ Head(docSlugs) \notin DOMAIN engine.indicesBySlug
         THEN Once(Tail(docSlugs), seen)
         ELSE <<Head(docSlugs)>> \o Once(Tail(docSlugs), seen \cup {Head(docSlugs)})

\* C27: a call whose docSlugs name a loaded doc ends as the call with each
\* loaded slug of docSlugs once does, and its results hold no result twice.
C27_FilterIsASet ==
    (Done /\ Once(call.docSlugs, {}) # <<>>)
    => /\ call.out = Search(engine, heap, call.query, Once(call.docSlugs, {}))
       /\ \A i, j \in 1..Len(call.out.results) :
             call.out.results[i] = call.out.results[j] => i = j

\* No search command is running and no message of one waits to be handled.
NoSearchInFlight == tui.cmds = {} /\ tui.msgs = {}

\* C28: whenever no search is in flight and the input has 2 characters or
\* more, the list shown holds the results of searching the input.
C28_ListMatchesInput ==
    (tui.pc = "on" /\ NoSearchInFlight /\ Len(tui.input) >= 2)
    => View.list = SearchDocsets(tui.engine, tui.input).results

\* The URLs whose scrapePage call returned a Page.
ScrapedOK == {u \in 1..crawl.urls : crawl.scraped[u] = "page"}

\* Every scrapePage call of ScrapePages has returned.
AllScraped ==
    /\ crawl.pc \in {"loop", "wait"}
    /\ \A u \in 1..crawl.urls : crawl.scraped[u] # "none"

\* ScrapePages returned exactly one Page for each URL scraped, no other,
\* and a nil error.
ReturnedScraped ==
    /\ Range(crawl.out.pages) = ScrapedOK
    /\ Len(crawl.out.pages) = Cardinality(ScrapedOK)
    /\ crawl.out.err = ""

\* C30: ScrapePages returns once every scrapePage call has returned, and
\* what it returns, under every interleaving, is one Page for each URL
\* whose scrape succeeded, none for one that failed, and a nil error.
C30_ScrapePagesReturnsScraped ==
    /\ AllScraped ~> crawl.pc = "returned"
    /\ [](crawl.pc = "returned" => ReturnedScraped)

\* three URLs, the second failed; the page of the third was appended
\* before the page of the first
C30_Witness ==
    /\ crawl.pc = "returned"
    /\ crawl.urls = 3
    /\ crawl.scraped = <<"page", "err", "page">>
    /\ crawl.out.pages = <<3, 1>>

====
